---- MODULE Spec2Model ----
(***************************************************************************)
(* A model of tess (cmd/tess.go): the selection workflow of main, the two  *)
(* Bubble Tea models it runs (spinModel inside runWithSpinner, listModel), *)
(* and the review classifier of buildMarkdown.                             *)
(*                                                                         *)
(* Text is a sequence of code points (a Go string restricted to ASCII), so *)
(* "" is << >>, "a" is <<97>>, "B" is <<66>>.                              *)
(*                                                                         *)
(* tea.Quit is modelled by its documented contract: the program whose      *)
(* Update returns it handles no further message and Run returns.           *)
(***************************************************************************)
EXTENDS Integers, Sequences, FiniteSets, TLC

VARIABLES
    pc,         \* where main is: the program it is blocked in, or "exit"
    exit,       \* "running", "ok" (main returned), "fatal" (os.Exit(1)/log.Fatalf)
    sp,         \* the spinModel of the running runWithSpinner call
    lm,         \* the listModel of the running list program
    inFlight,   \* work functions started (spinModel.Init's run) and not yet returned
    req,        \* what the work function started last was given: a user ID, a URL
    doneQ,      \* doneMsg values sent by returned work functions, not yet handled
    reports,    \* main: reports (after the sort)
    selIdx,     \* main: selIdx
    cycles,     \* main: cycles
    filtered,   \* main: filtered (after the sort)
    idx,        \* main: idx
    reviews,    \* main: reviews
    censorFlag, \* main: *censorFlag
    md,         \* main: md
    files,      \* the os.WriteFile calls that succeeded, in order
    stdout,     \* the "Wrote <fname>" lines printed, in order
    folderSet,  \* main: whether *rcloneFolderID is non-blank
    tpl,        \* main: the templates of copies still to be copied
    ev,         \* ghost: the last message the running tea program handled
    rs,         \* buildMarkdown run on its own: the reviews it was given
    ri,         \* buildMarkdown run on its own: records classified so far
    cl,         \* buildMarkdown run on its own: the classifier's maps and order lists
    lk,         \* buildMarkdown run on its own: what the lookups returned
    doc,        \* buildMarkdown run on its own: the document, once rendered
    fCycles,    \* the cycle filter run on its own: the cycles it is given
    fUser,      \* the cycle filter run on its own: selectedUserID
    fi,         \* the cycle filter run on its own: cycles looked at so far
    out,        \* the cycle filter run on its own: out
    shown,      \* the cycle filter run on its own: the cycle list shown, if any
    tx,         \* sanitizeText and mask run on their own: the text given
    sn,         \* sanitizeText run on its own: the results of its successive calls
    mk,         \* mask run on its own: the result, once called
    cfg,        \* main: the configuration file found and what loading it returned
    fn,         \* outputFileName run on its own: its arguments and its result
    disk,       \* setup run on its own: the file at the configuration path
    su          \* setup run on its own: where RunSetup is, and what it holds

vars == <<pc, exit, sp, lm, inFlight, req, doneQ, reports, selIdx, cycles, filtered,
          idx, reviews, censorFlag, md, files, stdout, folderSet, tpl, ev,
          rs, ri, cl, lk, doc, fCycles, fUser, fi, out, shown, tx, sn, mk,
          cfg, fn, disk, su>>

mainVars == <<pc, exit, sp, lm, inFlight, req, doneQ, reports, selIdx, cycles, filtered,
              idx, reviews, censorFlag, md, files, stdout, folderSet, tpl, ev, cfg>>

mdVars == <<rs, ri, cl, lk, doc>>

filterVars == <<fCycles, fUser, fi, out, shown>>

textVars == <<tx, sn, mk>>

nameVars == <<fn>>

setupVars == <<disk, su>>

-----------------------------------------------------------------------------
(* Bounds of the model.                                                    *)

MaxReports == 2     \* users in the direct-reports list
MaxCycles == 3      \* review cycles given to the cycle filter on its own
MaxReviews == 4     \* review records given to buildMarkdown on its own
MaxTokens == 3      \* tokens a text given to sanitizeText or mask is made of
MaxRecords == 2     \* review records of any shape given to buildMarkdown
MaxNameTokens == 3  \* tokens a subject name given to outputFileName is made of
MaxKeyLen == 2      \* characters of the api_key value in a configuration file

-----------------------------------------------------------------------------
(* Text helpers: strings.ToLower and Go's string comparison.               *)

Range(s) == {s[i] : i \in 1..Len(s)}

Min(a, b) == IF a < b THEN a ELSE b

ToLowerRune(r) == IF r >= 65 /\ r <= 90 THEN r + 32 ELSE r

ToLower(s) == [i \in 1..Len(s) |-> ToLowerRune(s[i])]

\* a < b on Go strings: bytewise lexicographic, a proper prefix is smaller.
StrLess(a, b) ==
    \E k \in 1..(Min(Len(a), Len(b)) + 1) :
        /\ \A i \in 1..(k - 1) : a[i] = b[i]
        /\ \/ k = Len(a) + 1 /\ k <= Len(b)
           \/ k <= Len(a) /\ k <= Len(b) /\ a[k] < b[k]

-----------------------------------------------------------------------------
(* Messages a tea program hands to Update.                                 *)

Nil == [kind |-> "nil"]

TickMsg == [type |-> "tick"]
KeyMsg(k) == [type |-> "key", key |-> k]
DoneMsg(res, err) == [type |-> "done", result |-> res, err |-> err]

\* msg.String() of the keys the operator can press; "x" stands for any key
\* listModel.Update has no case for.
Keys == {"ctrl+c", "q", "up", "k", "down", "j", "enter", "x"}

-----------------------------------------------------------------------------
(* spinModel and runWithSpinner.                                           *)

SpinnerFrames == 4

\* bubspinner.Model.Update: a tick advances the frame, anything else is ignored.
SpinnerUpdate(frame, msg) ==
    IF msg.type = "tick" THEN (frame + 1) % SpinnerFrames ELSE frame

\* newSpinModel: result and err start as nil; quit and runErr say how p.Run ended.
newSpinModel(stage) ==
    [stage |-> stage, frame |-> 0, result |-> Nil, err |-> "nil",
     quit |-> FALSE, runErr |-> FALSE]

SpinUpdateIgnoresDone(m, msg) ==
    IF msg.type = "done"
    THEN [model |-> [m EXCEPT !.result = msg.result, !.err = msg.err], quit |-> FALSE]
    ELSE [model |-> [m EXCEPT !.frame = SpinnerUpdate(m.frame, msg)], quit |-> FALSE]

SpinUpdateQuitsOnTick(m, msg) ==
    IF msg.type = "done"
    THEN [model |-> [m EXCEPT !.result = msg.result, !.err = msg.err], quit |-> TRUE]
    ELSE [model |-> [m EXCEPT !.frame = SpinnerUpdate(m.frame, msg)],
          quit |-> msg.type = "tick"]

SpinUpdateDropsError(m, msg) ==
    IF msg.type = "done"
    THEN [model |-> [m EXCEPT !.result = msg.result], quit |-> TRUE]
    ELSE [model |-> [m EXCEPT !.frame = SpinnerUpdate(m.frame, msg)], quit |-> FALSE]

SpinUpdateQuitsOnKey(m, msg) ==
    IF msg.type = "done"
    THEN [model |-> [m EXCEPT !.result = msg.result, !.err = msg.err], quit |-> TRUE]
    ELSE [model |-> [m EXCEPT !.frame = SpinnerUpdate(m.frame, msg)],
          quit |-> msg.type = "key" /\ msg.key \in {"ctrl+c", "q"}]

\* spinModel.Update: the new model and whether the returned command is tea.Quit.
SpinUpdate(m, msg) ==
    IF msg.type = "done"
    THEN [model |-> [m EXCEPT !.result = msg.result, !.err = msg.err], quit |-> TRUE]
    ELSE [model |-> [m EXCEPT !.frame = SpinnerUpdate(m.frame, msg)], quit |-> FALSE]

\* What runWithSpinner returns once p.Run has returned.
RwsReturn(m) ==
    IF m.runErr THEN [result |-> Nil, err |-> "err"]
    ELSE [result |-> m.result, err |-> m.err]

-----------------------------------------------------------------------------
(* listModel.                                                              *)

newListModel(items) ==
    [items |-> items, cursor |-> 0, choice |-> << >>, quit |-> FALSE, runErr |-> FALSE]

ListUpdateWraps(m, msg) ==
    IF msg.type # "key" THEN [model |-> m, quit |-> FALSE]
    ELSE CASE msg.key \in {"ctrl+c", "q"} -> [model |-> m, quit |-> TRUE]
           [] msg.key \in {"up", "k"} ->
                [model |-> [m EXCEPT !.cursor = IF m.cursor > 0 THEN m.cursor - 1 ELSE m.cursor],
                 quit |-> FALSE]
           [] msg.key \in {"down", "j"} ->
                [model |-> [m EXCEPT !.cursor = m.cursor + 1], quit |-> FALSE]
           [] msg.key = "enter" ->
                [model |-> IF Len(m.items) > 0 /\ m.cursor < Len(m.items)
                           THEN [m EXCEPT !.choice = m.items[m.cursor + 1]] ELSE m,
                 quit |-> TRUE]
           [] OTHER -> [model |-> m, quit |-> FALSE]

ListUpdateAbortSelects(m, msg) ==
    IF msg.type # "key" THEN [model |-> m, quit |-> FALSE]
    ELSE CASE msg.key \in {"ctrl+c", "q", "enter"} ->
                [model |-> IF Len(m.items) > 0
                           THEN [m EXCEPT !.choice = m.items[m.cursor + 1]] ELSE m,
                 quit |-> TRUE]
           [] msg.key \in {"up", "k"} ->
                [model |-> [m EXCEPT !.cursor = IF m.cursor > 0 THEN m.cursor - 1 ELSE m.cursor],
                 quit |-> FALSE]
           [] msg.key \in {"down", "j"} ->
                [model |-> [m EXCEPT !.cursor = IF m.cursor < Len(m.items) - 1
                                                THEN m.cursor + 1 ELSE m.cursor],
                 quit |-> FALSE]
           [] OTHER -> [model |-> m, quit |-> FALSE]

\* listModel.Update: the new model and whether the returned command is tea.Quit.
\* cursor is the Go index (from 0); items[m.cursor] is items[m.cursor + 1] here.
ListUpdate(m, msg) ==
    IF msg.type # "key" THEN [model |-> m, quit |-> FALSE]
    ELSE CASE msg.key \in {"ctrl+c", "q"} -> [model |-> m, quit |-> TRUE]
           [] msg.key \in {"up", "k"} ->
                [model |-> [m EXCEPT !.cursor = IF m.cursor > 0 THEN m.cursor - 1 ELSE m.cursor],
                 quit |-> FALSE]
           [] msg.key \in {"down", "j"} ->
                [model |-> [m EXCEPT !.cursor = IF m.cursor < Len(m.items) - 1
                                                THEN m.cursor + 1 ELSE m.cursor],
                 quit |-> FALSE]
           [] msg.key = "enter" ->
                [model |-> IF Len(m.items) > 0
                           THEN [m EXCEPT !.choice = m.items[m.cursor + 1]] ELSE m,
                 quit |-> TRUE]
           [] OTHER -> [model |-> m, quit |-> FALSE]

-----------------------------------------------------------------------------
(* Text: the strings, unicode and html functions tess.go calls.            *)

\* unicode.IsSpace on the code points below 256.
IsSpace(r) == r \in {9, 10, 11, 12, 13, 32, 133, 160}

RECURSIVE TrimLeftSpace(_)
TrimLeftSpace(s) ==
    IF s # << >> /\ IsSpace(Head(s)) THEN TrimLeftSpace(Tail(s)) ELSE s

RECURSIVE TrimRightIn(_, _)
TrimRightIn(s, cut) ==
    IF s # << >> /\ s[Len(s)] \in cut THEN TrimRightIn(SubSeq(s, 1, Len(s) - 1), cut) ELSE s

RECURSIVE TrimLeftIn(_, _)
TrimLeftIn(s, cut) ==
    IF s # << >> /\ Head(s) \in cut THEN TrimLeftIn(Tail(s), cut) ELSE s

\* strings.TrimSpace
TrimSpace(s) == TrimRightIn(TrimLeftSpace(s), {9, 10, 11, 12, 13, 32, 133, 160})

\* strings.Trim(s, cutset)
Trim(s, cut) == TrimRightIn(TrimLeftIn(s, cut), cut)

HasPrefix(s, p) == Len(s) >= Len(p) /\ SubSeq(s, 1, Len(p)) = p

\* strings.ReplaceAll for a non-empty old: leftmost, non-overlapping.
RECURSIVE ReplaceAll(_, _, _)
ReplaceAll(s, old, new) ==
    IF s = << >> THEN << >>
    ELSE IF HasPrefix(s, old) THEN new \o ReplaceAll(SubSeq(s, Len(old) + 1, Len(s)), old, new)
    ELSE <<Head(s)>> \o ReplaceAll(Tail(s), old, new)

\* strings.Split(s, "\n"): always at least one piece.
RECURSIVE SplitLines(_)
SplitLines(s) ==
    IF \A i \in 1..Len(s) : s[i] # 10 THEN <<s>>
    ELSE LET k == CHOOSE i \in 1..Len(s) : s[i] = 10 /\ \A j \in 1..(i - 1) : s[j] # 10
         IN <<SubSeq(s, 1, k - 1)>> \o SplitLines(SubSeq(s, k + 1, Len(s)))

\* strings.Join(parts, sep)
RECURSIVE Join(_, _)
Join(parts, sep) ==
    IF parts = << >> THEN << >>
    ELSE IF Len(parts) = 1 THEN parts[1]
    ELSE parts[1] \o sep \o Join(Tail(parts), sep)

\* strings.Fields: the maximal runs of non-space code points.
RECURSIVE Fields(_)
Fields(s) ==
    LET t == TrimLeftSpace(s) IN
    IF t = << >> THEN << >>
    ELSE LET n == IF \E i \in 1..Len(t) : IsSpace(t[i])
                  THEN (CHOOSE i \in 1..Len(t) : IsSpace(t[i]) /\ \A j \in 1..(i - 1) : ~IsSpace(t[j])) - 1
                  ELSE Len(t)
         IN <<SubSeq(t, 1, n)>> \o Fields(SubSeq(t, n + 1, Len(t)))

\* The entities html.UnescapeString knows that the model's texts can spell:
\* name (after the '&', with or without the ';' where Go accepts both) and value.
\*   amp; amp lt; lt gt; gt quot; quot
Entities ==
    << [name |-> <<97, 109, 112, 59>>, to |-> <<38>>],
       [name |-> <<108, 116, 59>>, to |-> <<60>>],
       [name |-> <<103, 116, 59>>, to |-> <<62>>],
       [name |-> <<113, 117, 111, 116, 59>>, to |-> <<34>>],
       [name |-> <<97, 109, 112>>, to |-> <<38>>],
       [name |-> <<108, 116>>, to |-> <<60>>],
       [name |-> <<103, 116>>, to |-> <<62>>],
       [name |-> <<113, 117, 111, 116>>, to |-> <<34>>] >>

IsDigit(r) == r >= 48 /\ r <= 57

RECURSIVE DigitsLen(_)
DigitsLen(s) == IF s # << >> /\ IsDigit(Head(s)) THEN 1 + DigitsLen(Tail(s)) ELSE 0

RECURSIVE DecValue(_, _)
DecValue(s, acc) == IF s = << >> THEN acc ELSE DecValue(Tail(s), acc * 10 + (Head(s) - 48))

\* html.UnescapeString: named entities of Entities (longest first, as listed) and
\* decimal character references &#NNN; (the ';' optional); any other '&' is kept.
RECURSIVE UnescapeString(_)
UnescapeString(s) ==
    IF s = << >> THEN << >>
    ELSE IF Head(s) # 38 THEN <<Head(s)>> \o UnescapeString(Tail(s))
    ELSE LET r == Tail(s)
             hits == {i \in 1..Len(Entities) : HasPrefix(r, Entities[i].name)}
         IN IF hits # {}
            THEN LET i == CHOOSE i \in hits : \A j \in hits : i <= j
                 IN Entities[i].to \o UnescapeString(SubSeq(r, Len(Entities[i].name) + 1, Len(r)))
            ELSE IF r # << >> /\ Head(r) = 35 /\ DigitsLen(Tail(r)) > 0
            THEN LET n == DigitsLen(Tail(r))
                     v == DecValue(SubSeq(r, 2, n + 1), 0)
                     rest == SubSeq(r, n + 2, Len(r))
                     rest2 == IF rest # << >> /\ Head(rest) = 59 THEN Tail(rest) ELSE rest
                 IN <<IF v = 0 \/ v > 1114111 THEN 65533 ELSE v>> \o UnescapeString(rest2)
            ELSE <<38>> \o UnescapeString(r)

\* The tag-stripping loop of sanitizeText: the text kept, given inTag.
RECURSIVE StripTags(_, _)
StripTags(s, inTag) ==
    IF s = << >> THEN << >>
    ELSE IF Head(s) = 60 THEN StripTags(Tail(s), TRUE)
    ELSE IF Head(s) = 62 THEN StripTags(Tail(s), FALSE)
    ELSE IF inTag THEN StripTags(Tail(s), inTag)
    ELSE <<Head(s)>> \o StripTags(Tail(s), inTag)

\* The compaction loop of sanitizeText over the lines raw, given prevBlank.
RECURSIVE Compact(_, _)
Compact(raw, prevBlank) ==
    IF raw = << >> THEN << >>
    ELSE LET l == TrimRightIn(Head(raw), {32, 9})
             isBlank == TrimSpace(l) = << >>
         IN IF isBlank /\ prevBlank THEN Compact(Tail(raw), prevBlank)
            ELSE <<l>> \o Compact(Tail(raw), isBlank)

\* The replacement table of sanitizeText, applied in order:
\*   <br> <br/> <br /> </p> to "\n", <p> to "".
Repls ==
    << [old |-> <<60, 98, 114, 62>>, new |-> <<10>>],
       [old |-> <<60, 98, 114, 47, 62>>, new |-> <<10>>],
       [old |-> <<60, 98, 114, 32, 47, 62>>, new |-> <<10>>],
       [old |-> <<60, 47, 112, 62>>, new |-> <<10>>],
       [old |-> <<60, 112, 62>>, new |-> << >>] >>

RECURSIVE ApplyRepls(_, _)
ApplyRepls(s, i) ==
    IF i > Len(Repls) THEN s
    ELSE ApplyRepls(ReplaceAll(s, Repls[i].old, Repls[i].new), i + 1)

sanitizeText(s) ==
    IF s = << >> THEN s
    ELSE TrimSpace(Join(Compact(SplitLines(StripTags(ApplyRepls(UnescapeString(s), 1), FALSE)),
                                FALSE), <<10>>))

-----------------------------------------------------------------------------
(* buildMarkdown.                                                          *)

\* A pointer field of api.Review: nil, or the value pointed to.
NilPtr == [nil |-> TRUE]
Ptr(v) == [nil |-> FALSE, v |-> v]

\* String literals of buildMarkdown and outputFileName.
StrSelf == <<115, 101, 108, 102>>              \* "self"
StrQuestion == <<81, 117, 101, 115, 116, 105, 111, 110>>      \* "Question"
StrUnknown == <<85, 110, 107, 110, 111, 119, 110>>        \* "Unknown"
StrNoComment == <<40, 110, 111, 32, 99, 111, 109, 109, 101, 110, 116, 41>> \* "(no comment)"
StrPeerLabel == <<35, 35, 32, 80, 101, 101, 114, 32, 70, 101, 101, 100, 98, 97, 99, 107, 10, 10>>   \* "## Peer Feedback\n\n"
StrSelfLabel == <<35, 35, 32, 83, 101, 108, 102, 32, 82, 101, 118, 105, 101, 119, 10, 10>>     \* "## Self Review\n\n"
StrDivider == <<45, 45, 45, 10, 10>>          \* "---\n\n"
StrH3 == <<35, 35, 35, 32>>                \* "### "
StrQuotePrefix == <<62, 32>>         \* "> "
StrScoreOpen == <<32, 40, 115, 99, 111, 114, 101, 58, 32>>    \* " (score: "
StrScoreClose == <<41, 58, 10, 10>>        \* "):\n\n"
StrColon == <<58, 10, 10>>              \* ":\n\n"
StrCommaSpace == <<44, 32>>          \* ", "
StrUser == <<117, 115, 101, 114>>              \* "user"
StrMdExt == <<46, 109, 100>>              \* ".md"
NL == <<10>>

Glyph == 9618   \* the rune written for a masked character, U+2592

maskAlways(s, censor) == [i \in 1..Len(s) |-> IF IsSpace(s[i]) THEN s[i] ELSE Glyph]

\* mask, the closure of buildMarkdown over censor.
mask(s, censor) ==
    IF ~censor THEN s
    ELSE [i \in 1..Len(s) |-> IF IsSpace(s[i]) THEN s[i] ELSE Glyph]

\* A Go map with slice values: append v to m[k], creating the key.
MapAppend(m, k, v) ==
    [x \in (DOMAIN m) \cup {k} |-> IF x = k
                                   THEN (IF k \in DOMAIN m THEN Append(m[k], v) ELSE <<v>>)
                                   ELSE m[x]]

EmptyMap == [x \in {} |-> << >>]

\* The maps, order lists and seen sets before the classification loop.
ClassifyInit ==
    [peerByQ |-> EmptyMap, selfByQ |-> EmptyMap,
     qOrderPeer |-> << >>, qOrderSelf |-> << >>,
     seenPeer |-> {}, seenSelf |-> {}]

HasContentNoChoices(resp) ==
    \/ ~resp.Comment.nil /\ TrimSpace(resp.Comment.v) # << >>
    \/ ~resp.RatingString.nil
    \/ ~resp.Rating.nil

\* hasContent of the classification loop, for a response that is not nil.
HasContent(resp) ==
    \/ ~resp.Comment.nil /\ TrimSpace(resp.Comment.v) # << >>
    \/ Len(resp.Choices) > 0
    \/ ~resp.RatingString.nil
    \/ ~resp.Rating.nil

ClassifyOneKeepsAll(c, r) ==
    LET qid == r.Question IN
    IF ToLower(r.ReviewType) = StrSelf
    THEN [c EXCEPT !.selfByQ = MapAppend(@, qid, r),
                   !.qOrderSelf = IF qid \in c.seenSelf THEN @ ELSE Append(@, qid),
                   !.seenSelf = @ \cup {qid}]
    ELSE [c EXCEPT !.peerByQ = MapAppend(@, qid, r),
                   !.qOrderPeer = IF qid \in c.seenPeer THEN @ ELSE Append(@, qid),
                   !.seenPeer = @ \cup {qid}]

ClassifyOneNoSeen(c, r) ==
    LET qid == r.Question IN
    IF ToLower(r.ReviewType) = StrSelf
    THEN [c EXCEPT !.selfByQ = MapAppend(@, qid, r),
                   !.qOrderSelf = Append(@, qid),
                   !.seenSelf = @ \cup {qid}]
    ELSE IF r.Response.nil THEN c
    ELSE IF ~HasContent(r.Response) THEN c
    ELSE [c EXCEPT !.peerByQ = MapAppend(@, qid, r),
                   !.qOrderPeer = Append(@, qid),
                   !.seenPeer = @ \cup {qid}]

ClassifyOneSelfFiltered(c, r) ==
    LET qid == r.Question IN
    IF r.Response.nil THEN c
    ELSE IF ToLower(r.ReviewType) = StrSelf
    THEN [c EXCEPT !.selfByQ = MapAppend(@, qid, r),
                   !.qOrderSelf = IF qid \in c.seenSelf THEN @ ELSE Append(@, qid),
                   !.seenSelf = @ \cup {qid}]
    ELSE IF ~HasContent(r.Response) THEN c
    ELSE [c EXCEPT !.peerByQ = MapAppend(@, qid, r),
                   !.qOrderPeer = IF qid \in c.seenPeer THEN @ ELSE Append(@, qid),
                   !.seenPeer = @ \cup {qid}]

\* One iteration of the classification loop, on record r.
ClassifyOne(c, r) ==
    LET qid == r.Question IN
    IF ToLower(r.ReviewType) = StrSelf
    THEN [c EXCEPT !.selfByQ = MapAppend(@, qid, r),
                   !.qOrderSelf = IF qid \in c.seenSelf THEN @ ELSE Append(@, qid),
                   !.seenSelf = @ \cup {qid}]
    ELSE IF r.Response.nil THEN c
    ELSE IF ~HasContent(r.Response) THEN c
    ELSE [c EXCEPT !.peerByQ = MapAppend(@, qid, r),
                   !.qOrderPeer = IF qid \in c.seenPeer THEN @ ELSE Append(@, qid),
                   !.seenPeer = @ \cup {qid}]

RECURSIVE ClassifyFrom(_, _)
ClassifyFrom(c, revs) ==
    IF revs = << >> THEN c ELSE ClassifyFrom(ClassifyOne(c, Head(revs)), Tail(revs))

\* The whole classification loop.
Classify(revs) == ClassifyFrom(ClassifyInit, revs)

\* Decimal digits of a natural number.
RECURSIVE Digits(_)
Digits(n) == IF n < 10 THEN <<48 + n>> ELSE Digits(n \div 10) \o <<48 + (n % 10)>>

\* fmt.Sprintf("%.2f", x) for a rating x given in tenths (35 is 3.5).
FormatRating(t) == Digits(t \div 10) \o <<46, 48 + (t % 10), 48>>

\* The quote of a record: its comment, else its choices, else the placeholder.
QuoteOf(resp) ==
    LET q == IF ~resp.nil /\ ~resp.Comment.nil /\ TrimSpace(resp.Comment.v) # << >>
             THEN sanitizeText(TrimSpace(resp.Comment.v))
             ELSE IF ~resp.nil /\ Len(resp.Choices) > 0
             THEN sanitizeText(Join(resp.Choices, StrCommaSpace))
             ELSE << >>
    IN IF TrimSpace(q) = << >> THEN StrNoComment ELSE q

RECURSIVE QuoteLines(_)
QuoteLines(lines) ==
    IF lines = << >> THEN << >>
    ELSE StrQuotePrefix \o Head(lines) \o NL \o QuoteLines(Tail(lines))

\* The quote block of one record: "> line\n" per line, then "\n".
QuoteBlock(resp, censor) ==
    QuoteLines(SplitLines(mask(QuoteOf(resp), censor))) \o NL

ScoreOfNumericFirst(resp) ==
    IF ~resp.Rating.nil THEN FormatRating(resp.Rating.v)
    ELSE IF ~resp.RatingString.nil THEN resp.RatingString.v
    ELSE << >>

\* The score string of a peer record.
ScoreOf(resp) ==
    LET s1 == IF ~resp.RatingString.nil /\ resp.RatingString.v # << >>
              THEN resp.RatingString.v ELSE << >>
    IN IF s1 = << >> /\ ~resp.Rating.nil THEN FormatRating(resp.Rating.v) ELSE s1

NameOfKeepsBlank(r, look) ==
    IF r.Reviewer # << >> /\ ~look.user[r.Reviewer].err
    THEN look.user[r.Reviewer].Name
    ELSE StrUnknown

\* The reviewer name of a peer record; look.user[id] is what GetUserByID returns.
NameOf(r, look) ==
    IF r.Reviewer # << >> /\ ~look.user[r.Reviewer].err
       /\ TrimSpace(look.user[r.Reviewer].Name) # << >>
    THEN look.user[r.Reviewer].Name
    ELSE StrUnknown

PeerEntryScoreShown(r, look, censor) ==
    LET name == NameOf(r, look)
        score == ScoreOf(r.Response)
    IN (IF score # << >>
        THEN mask(name, censor) \o StrScoreOpen \o score \o StrScoreClose
        ELSE mask(name, censor) \o StrColon)
       \o QuoteBlock(r.Response, censor)

\* One peer entry: the attribution line and the quote block.
PeerEntry(r, look, censor) ==
    LET name == NameOf(r, look)
        score == ScoreOf(r.Response)
    IN (IF score # << >>
        THEN mask(name, censor) \o StrScoreOpen \o mask(score, censor) \o StrScoreClose
        ELSE mask(name, censor) \o StrColon)
       \o QuoteBlock(r.Response, censor)

RECURSIVE PeerEntries(_, _, _)
PeerEntries(recs, look, censor) ==
    IF recs = << >> THEN << >>
    ELSE PeerEntry(Head(recs), look, censor) \o PeerEntries(Tail(recs), look, censor)

RECURSIVE SelfEntries(_, _)
SelfEntries(recs, censor) ==
    IF recs = << >> THEN << >>
    ELSE QuoteBlock(Head(recs).Response, censor) \o SelfEntries(Tail(recs), censor)

\* qtext in the peer loop; look.peerQ[qid] is what GetQuestionByID returns there.
PeerHeading(qid, look) ==
    IF look.peerQ[qid].err THEN StrQuestion
    ELSE ReplaceAll(UnescapeString(TrimSpace(look.peerQ[qid].Body)), NL, <<32>>)

\* qtext in the self loop; look.selfQ[qid] is what GetQuestionByID returns there.
SelfHeading(qid, look) ==
    IF look.selfQ[qid].err THEN StrQuestion
    ELSE ReplaceAll(sanitizeText(TrimSpace(look.selfQ[qid].Body)), NL, <<32>>)

RECURSIVE PeerSection(_, _, _, _)
PeerSection(order, byQ, look, censor) ==
    IF order = << >> THEN << >>
    ELSE StrH3 \o PeerHeading(Head(order), look) \o NL \o NL
         \o PeerEntries(byQ[Head(order)], look, censor)
         \o PeerSection(Tail(order), byQ, look, censor)

RECURSIVE SelfSection(_, _, _, _)
SelfSection(order, byQ, look, censor) ==
    IF order = << >> THEN << >>
    ELSE StrH3 \o SelfHeading(Head(order), look) \o NL \o NL
         \o SelfEntries(byQ[Head(order)], censor)
         \o SelfSection(Tail(order), byQ, look, censor)

RenderDividerBetween(userName, cycleName, c, look, censor) ==
    <<35, 32>> \o userName \o <<32, 40>> \o cycleName \o <<41, 10, 10>>
    \o StrPeerLabel
    \o PeerSection(c.qOrderPeer, c.peerByQ, look, censor)
    \o (IF c.qOrderSelf = << >> THEN << >> ELSE StrDivider)
    \o StrSelfLabel
    \o SelfSection(c.qOrderSelf, c.selfByQ, look, censor)

\* The document written from the classifier's result c.
Render(userName, cycleName, c, look, censor) ==
    <<35, 32>> \o userName \o <<32, 40>> \o cycleName \o <<41, 10, 10>>
    \o StrPeerLabel
    \o PeerSection(c.qOrderPeer, c.peerByQ, look, censor)
    \o StrDivider
    \o StrSelfLabel
    \o SelfSection(c.qOrderSelf, c.selfByQ, look, censor)

buildMarkdown(userName, cycleName, revs, look, censor) ==
    Render(userName, cycleName, Classify(revs), look, censor)

-----------------------------------------------------------------------------
(* outputFileName.                                                         *)

\* repl of toSlug: the rune kept, or -1 to drop it.
SlugRune(r) ==
    IF (r >= 97 /\ r <= 122) \/ (r >= 48 /\ r <= 57) THEN r
    ELSE IF r \in {32, 45, 47, 92} THEN 95
    ELSE -1

RECURSIVE MapSlug(_)
MapSlug(s) ==
    IF s = << >> THEN << >>
    ELSE (IF SlugRune(Head(s)) = -1 THEN << >> ELSE <<SlugRune(Head(s))>>) \o MapSlug(Tail(s))

toSlug(s) == Trim(MapSlug(ToLower(s)), {95})

outputFileNameSecondToken(userName, cycleName) ==
    LET parts == Fields(userName)
        first0 == IF Len(parts) > 0 THEN parts[1] ELSE << >>
        last == IF Len(parts) > 1 THEN parts[2] ELSE << >>
        first == IF first0 = << >> THEN StrUser ELSE first0
    IN toSlug(first) \o <<95>> \o toSlug(last) \o <<95>> \o toSlug(cycleName) \o StrMdExt

outputFileName(userName, cycleName) ==
    LET parts == Fields(userName)
        first0 == IF Len(parts) > 0 THEN parts[1] ELSE << >>
        last == IF Len(parts) > 1 THEN parts[Len(parts)] ELSE << >>
        first == IF first0 = << >> THEN StrUser ELSE first0
    IN toSlug(first) \o <<95>> \o toSlug(last) \o <<95>> \o toSlug(cycleName) \o StrMdExt

-----------------------------------------------------------------------------
(* What the remote API can answer: the inputs of a run.                    *)

Q1 == <<81, 49>>    \* "Q1"
Q2 == <<81, 50>>    \* "Q2"
Q3 == <<81, 51>>    \* "Q3"
QIDs == {Q1, Q2, Q3}

RvA == <<114, 65>>  \* "rA", a reviewer ID
RvB == <<114, 66>>  \* "rB", a reviewer ID
ReviewerIDs == {RvA, RvB}

\* User and cycle names: "", "a", "B".
NameChoices == {<< >>, <<97>>, <<66>>}

UserID(i) == <<117, 48 + i>>    \* "u1", "u2", ...
CycleID(i) == <<99, 48 + i>>    \* "c1", "c2", ...

\* The lists ListUsersByURL can return: user i has ID UserID(i) and any name.
ReportLists ==
    UNION {{[i \in 1..n |-> [ID |-> UserID(i), Name |-> f[i]]] : f \in [1..n -> NameChoices]}
           : n \in 0..MaxReports}

\* A reviewee entry: the user it is about and the URL of that user's reviews.
Reviewee(uid, url) == [User |-> uid, Reviews |-> url]

\* What a cycle can look like: its name, and what ListRevieweesByURL answers for
\* its reviewee URL (an error, or the entries).
\*   CyErr  "a": the reviewee fetch fails
\*   CyB1   "B": u1 (reviews at "x")
\*   CyE    "":  u2 ("y"), u1 ("z"), u1 again ("x")
\*   CyA2   "a": u2 ("y")
\*   CyA12  "a": u1 ("w"), u2 ("y")
CyErr == [Name |-> <<97>>, rvErr |-> TRUE, rv |-> << >>]
CyB1 == [Name |-> <<66>>, rvErr |-> FALSE, rv |-> <<Reviewee(UserID(1), <<120>>)>>]
CyE == [Name |-> << >>, rvErr |-> FALSE,
        rv |-> <<Reviewee(UserID(2), <<121>>), Reviewee(UserID(1), <<122>>),
                 Reviewee(UserID(1), <<120>>)>>]
CyA2 == [Name |-> <<97>>, rvErr |-> FALSE, rv |-> <<Reviewee(UserID(2), <<121>>)>>]
CyA12 == [Name |-> <<97>>, rvErr |-> FALSE,
          rv |-> <<Reviewee(UserID(1), <<119>>), Reviewee(UserID(2), <<121>>)>>]

CycleChoices == {CyErr, CyB1, CyE, CyA2, CyA12}

\* A cycle list: cycle i has ID CycleID(i).
WithIDs(f) ==
    [i \in 1..Len(f) |-> [ID |-> CycleID(i), Name |-> f[i].Name,
                          rvErr |-> f[i].rvErr, rv |-> f[i].rv]]

\* Every cycle list up to MaxCycles cycles.
CycleLists == UNION {{WithIDs(f) : f \in [1..n -> CycleChoices]} : n \in 0..MaxCycles}

\* The lists ListReviewCycles returns in a run of main.
RunCycleLists ==
    {WithIDs(<< >>), WithIDs(<<CyErr, CyA2>>), WithIDs(<<CyB1, CyErr, CyA12>>),
     WithIDs(<<CyB1, CyE>>)}

Response(comment, choices, ratingString, rating) ==
    [nil |-> FALSE, Comment |-> comment, Choices |-> choices,
     RatingString |-> ratingString, Rating |-> rating]

NoResponse == [nil |-> TRUE]

Review(type, qid, reviewer, resp) ==
    [ReviewType |-> type, Question |-> qid, Reviewer |-> reviewer, Response |-> resp]

TxtOk == <<111, 107>>           \* "ok"
TxtPeer == <<112, 101, 101, 114>>   \* "peer"
TxtSELF == <<83, 69, 76, 70>>   \* "SELF"

\* The review lists ListReviewsByURL returns in a run of main.
RunReviewLists ==
    { << >>,
      << Review(TxtPeer, Q1, RvA, Response(Ptr(TxtOk), << >>, NilPtr, Ptr(35))),
         Review(StrSelf, Q1, << >>, Response(Ptr(TxtOk), << >>, NilPtr, NilPtr)) >> }

\* What GetQuestionByID (in the peer loop, in the self loop) and GetUserByID
\* return in a run of main.
RunLook ==
    [peerQ |-> [q \in QIDs |-> [err |-> FALSE, Body |-> q]],
     selfQ |-> [q \in QIDs |-> [err |-> FALSE, Body |-> q]],
     user |-> [r \in ReviewerIDs |-> [err |-> FALSE, Name |-> <<65, 108>>]]]

-----------------------------------------------------------------------------
(* sort.Slice and the cycle filter of main.                                *)

Injections(n) == {f \in [1..n -> 1..n] : \A i, j \in 1..n : f[i] = f[j] => i = j}

lessCaseSensitive(a, b) == StrLess(a.Name, b.Name)

\* The less function of both sort.Slice calls: by lower-cased name.
less(a, b) == StrLess(ToLower(a.Name), ToLower(b.Name))

\* sort.Slice(s, less): some permutation of s in which no element is less than
\* an earlier one (the sort is not stable, so ties may come out in any order).
SortSlice(s) ==
    {t \in {[i \in 1..Len(s) |-> s[f[i]]] : f \in Injections(Len(s))} :
        \A i, j \in 1..Len(t) : i < j => ~less(t[j], t[i])}

\* The index of the first reviewee of rv about uid, or 0.
FirstMatch(rv, uid) ==
    IF \E i \in 1..Len(rv) : rv[i].User = uid
    THEN CHOOSE i \in 1..Len(rv) : rv[i].User = uid /\ \A j \in 1..(i - 1) : rv[j].User # uid
    ELSE 0

filterOneKeepsFailed(cy, uid) ==
    LET k == FirstMatch(cy.rv, uid)
    IN IF cy.rvErr \/ k # 0
       THEN <<[Name |-> cy.Name,
               ReviewsURL |-> IF k = 0 THEN << >> ELSE cy.rv[k].Reviews,
               Cycle |-> cy]>>
       ELSE << >>

filterOneKeepsEveryMatch(cy, uid) ==
    IF cy.rvErr THEN << >>
    ELSE LET hits == {i \in 1..Len(cy.rv) : cy.rv[i].User = uid}
             RECURSIVE Each(_)
             Each(i) == IF i > Len(cy.rv) THEN << >>
                        ELSE (IF i \in hits
                              THEN <<[Name |-> cy.Name, ReviewsURL |-> cy.rv[i].Reviews,
                                      Cycle |-> cy]>>
                              ELSE << >>) \o Each(i + 1)
         IN Each(1)

\* One iteration of the loop over cycles in the "Filtering cycles" work
\* function: what it appends to out for cycle cy.
filterOne(cy, uid) ==
    LET k == IF cy.rvErr THEN 0 ELSE FirstMatch(cy.rv, uid)
    IN IF k = 0 THEN << >>
       ELSE <<[Name |-> cy.Name, ReviewsURL |-> cy.rv[k].Reviews, Cycle |-> cy]>>

\* The work function of the "Filtering cycles" spinner: the cycleEntry list.
RECURSIVE filterCycles(_, _)
filterCycles(cys, uid) ==
    IF cys = << >> THEN << >>
    ELSE filterOne(Head(cys), uid) \o filterCycles(Tail(cys), uid)

Names(s) == [i \in 1..Len(s) |-> s[i].Name]

-----------------------------------------------------------------------------
(* The configuration file: loadConfigFromTOML of tess.go, and LoadConfig,  *)
(* SaveConfig and escape of internal/config.go.                            *)

StrApiKey == <<97, 112, 105, 95, 107, 101, 121>>     \* "api_key"
StrRcloneRemote == <<114, 99, 108, 111, 110, 101, 95, 114, 101, 109, 111, 116, 101>>     \* "rclone_remote"
StrTemplateHubID == <<116, 101, 109, 112, 108, 97, 116, 101, 95, 104, 117, 98, 95, 105, 100>>     \* "template_hub_id"
StrTemplateCoverID == <<116, 101, 109, 112, 108, 97, 116, 101, 95, 99, 111, 118, 101, 114, 95, 105, 100>>     \* "template_cover_id"
StrTemplateReviewID == <<116, 101, 109, 112, 108, 97, 116, 101, 95, 114, 101, 118, 105, 101, 119, 95, 105, 100>>     \* "template_review_id"
StrDrive == <<100, 114, 105, 118, 101>>     \* "drive"

\* FileConfig{}
ZeroConfig ==
    [APIKey |-> << >>, RcloneRemote |-> << >>, TemplateHubID |-> << >>,
     TemplateCoverID |-> << >>, TemplateReviewID |-> << >>]

\* What is at the configuration path: nothing, a file that cannot be opened, a
\* file whose reading fails, or a file with a text.
NoFile == [kind |-> "missing"]
DeniedFile == [kind |-> "denied"]
BrokenFile == [kind |-> "broken"]
File(t) == [kind |-> "file", text |-> t]

\* The index of the first r in s, or 0.
IndexRune(s, r) ==
    IF \E i \in 1..Len(s) : s[i] = r
    THEN CHOOSE i \in 1..Len(s) : s[i] = r /\ \A j \in 1..(i - 1) : s[j] # r
    ELSE 0

\* The tokens of bufio.Scanner with its default split function: the lines
\* without their end-of-line marker ("\n" or "\r\n"); no token after the last
\* newline when nothing follows it.
RECURSIVE ScanLines(_)
ScanLines(t) ==
    LET dropCR(l) == IF l # << >> /\ l[Len(l)] = 13 THEN SubSeq(l, 1, Len(l) - 1) ELSE l
        k == IndexRune(t, 10)
    IN IF t = << >> THEN << >>
       ELSE IF k = 0 THEN <<dropCR(t)>>
       ELSE <<dropCR(SubSeq(t, 1, k - 1))>> \o ScanLines(SubSeq(t, k + 1, Len(t)))

\* The value of a line with its enclosing pair of quotes taken off.
Unquote(val) ==
    IF Len(val) >= 2 /\ (\/ val[1] = 34 /\ val[Len(val)] = 34
                         \/ val[1] = 39 /\ val[Len(val)] = 39)
    THEN SubSeq(val, 2, Len(val) - 1)
    ELSE val

\* One iteration of the scanning loop: cfg after the line.
ParseLine(c, text) ==
    LET h == IndexRune(text, 35)
        line == TrimSpace(IF h > 0 THEN SubSeq(text, 1, h - 1) ELSE text)
        e == IndexRune(line, 61)
    IN IF line = << >> \/ line[1] = 91 THEN c
       ELSE IF e = 0 THEN c
       ELSE LET key == TrimSpace(SubSeq(line, 1, e - 1))
                val == Unquote(Trim(TrimSpace(SubSeq(line, e + 1, Len(line))), {32, 9}))
            IN CASE key = StrApiKey -> [c EXCEPT !.APIKey = val]
                 [] key = StrRcloneRemote -> [c EXCEPT !.RcloneRemote = TrimSpace(val)]
                 [] key = StrTemplateHubID -> [c EXCEPT !.TemplateHubID = TrimSpace(val)]
                 [] key = StrTemplateCoverID -> [c EXCEPT !.TemplateCoverID = TrimSpace(val)]
                 [] key = StrTemplateReviewID -> [c EXCEPT !.TemplateReviewID = TrimSpace(val)]
                 [] OTHER -> c

\* The scanning loop over the lines.
RECURSIVE ParseLines(_, _)
ParseLines(c, lines) ==
    IF lines = << >> THEN c ELSE ParseLines(ParseLine(c, Head(lines)), Tail(lines))

LoadFailed(e) == [err |-> e, cfg |-> ZeroConfig]

\* LoadConfig of internal/config.go: the error ("nil" for none) and the config.
LoadConfig(f) ==
    IF f.kind = "missing" THEN LoadFailed("notfound")
    ELSE IF f.kind = "denied" THEN LoadFailed("open")
    ELSE IF f.kind = "broken" THEN LoadFailed("read")
    ELSE LET c == ParseLines(ZeroConfig, ScanLines(f.text))
         IN IF TrimSpace(c.APIKey) = << >> THEN LoadFailed("nokey")
            ELSE [err |-> "nil", cfg |-> c]

\* loadConfigFromTOML of cmd/tess.go, the same code over fileConfig.
loadConfigFromTOML(f) ==
    IF f.kind = "missing" THEN LoadFailed("notfound")
    ELSE IF f.kind = "denied" THEN LoadFailed("open")
    ELSE IF f.kind = "broken" THEN LoadFailed("read")
    ELSE LET c == ParseLines(ZeroConfig, ScanLines(f.text))
         IN IF TrimSpace(c.APIKey) = << >> THEN LoadFailed("nokey")
            ELSE [err |-> "nil", cfg |-> c]

\* escape: a backslash before every backslash, then before every double quote.
escape(s) == ReplaceAll(ReplaceAll(s, <<92>>, <<92, 92>>), <<34>>, <<92, 34>>)

\* One line of SaveConfig: key = "value"\n when the value is not blank.
ConfigLine(key, val) ==
    IF TrimSpace(val) # << >>
    THEN key \o <<32, 61, 32, 34>> \o escape(val) \o <<34, 10>>
    ELSE << >>

\* SaveConfig: the text written to the configuration path.
SaveConfig(c) ==
    ConfigLine(StrApiKey, c.APIKey)
    \o ConfigLine(StrRcloneRemote, c.RcloneRemote)
    \o ConfigLine(StrTemplateHubID, c.TemplateHubID)
    \o ConfigLine(StrTemplateCoverID, c.TemplateCoverID)
    \o ConfigLine(StrTemplateReviewID, c.TemplateReviewID)

-----------------------------------------------------------------------------
(* main: its position, and the steps between the tea programs it runs.     *)

SpinStages == {"me", "reports", "cycles", "filter", "reviews", "markdown",
               "convert", "upload", "template"}
ListStages == {"users", "cycleList"}

NoEv == [type |-> "none", key |-> "", at |-> 0]

\* msg.String() of the keys pressed while a spinner runs: abort, confirm, move.
SpinKeys == {"q", "enter", "down"}

\* The template lists main can end up copying (the IDs that are not empty).
TemplatePlans == {<<"Hub", "Cover", "Review">>, <<"Review">>}

Ok(kind, v) == [result |-> [kind |-> kind, v |-> v], err |-> "nil"]
Failed == [result |-> Nil, err |-> "err"]

\* What the work function of a stage can return, given main's variables.
WorkResults(stage) ==
    CASE stage = "me" -> {Ok("user", UserID(0)), Failed}
      [] stage = "reports" -> {Ok("users", l) : l \in ReportLists} \cup {Failed}
      [] stage = "cycles" -> {Ok("cycles", l) : l \in RunCycleLists} \cup {Failed}
      [] stage = "filter" -> {Ok("entries", filterCycles(cycles, req))}
      [] stage = "reviews" -> {Ok("reviews", l) : l \in RunReviewLists} \cup {Failed}
      [] stage = "markdown" ->
            {Ok("md", buildMarkdown(reports[selIdx + 1].Name, filtered[idx + 1].Name,
                                    reviews, RunLook, censorFlag))}
      [] stage = "convert" -> {Ok("none", << >>), Failed}
      [] stage = "upload" -> {Ok("link", <<108>>), Ok("link", << >>), Failed}
      [] stage = "template" -> {Ok("none", << >>), Failed}

\* log.Fatalf and os.Exit(1).
Fatal == pc' = "exit" /\ exit' = "fatal"

\* return from main.
Return == pc' = "exit" /\ exit' = "ok"

\* runWithSpinner up to p.Run: a new spinModel, whose Init starts the work.
StartSpinner(stage) ==
    /\ pc' = stage
    /\ exit' = exit
    /\ sp' = newSpinModel(stage)
    /\ inFlight' = inFlight \cup {stage}
    /\ req' = CASE stage = "filter" -> reports[selIdx + 1].ID
                [] stage = "reviews" -> filtered[idx' + 1].ReviewsURL
                [] OTHER -> << >>
    /\ ev' = NoEv

\* tea.NewProgram(newListModel(title, items)).Run up to the first message.
StartList(stage, items) ==
    /\ pc' = stage
    /\ exit' = exit
    /\ lm' = newListModel(items)
    /\ ev' = NoEv

\* The loop over copies: the next template with an ID is copied, or main ends.
CopyNext(rest) ==
    /\ tpl' = rest
    /\ IF rest = << >>
       THEN Return /\ UNCHANGED <<sp, inFlight, req, ev>>
       ELSE StartSpinner("template")

\* From "Wrote <fname>" to the first template copy or the end of main.
Report(fname, url, folder) ==
    /\ stdout' = stdout \o <<[line |-> "Wrote", arg |-> fname]>>
                        \o (IF TrimSpace(url) # << >>
                            THEN <<[line |-> "Uploaded", arg |-> url]>> ELSE << >>)
    /\ \E copyTemplates \in BOOLEAN, rcloneAvailable \in BOOLEAN, plan \in TemplatePlans :
          IF copyTemplates /\ folder /\ rcloneAvailable
          THEN CopyNext(plan)
          ELSE CopyNext(<< >>)

NotLoaded == [loaded |-> FALSE]

TxtCfgGood == <<97, 112, 105, 95, 107, 101, 121, 32, 61, 32, 34, 107, 34, 10, 114, 99, 108, 111, 110, 101, 95, 114, 101, 109, 111, 116, 101, 32, 61, 32, 34, 100, 114, 105, 118, 101, 34, 10>>
    \* api_key = "k"\nrclone_remote = "drive"\n
TxtCfgBlankKey == <<97, 112, 105, 95, 107, 101, 121, 32, 61, 32, 34, 32, 32, 34, 10>>
    \* api_key = "  "\n
TxtCfgCommented == <<35, 32, 97, 112, 105, 95, 107, 101, 121, 32, 61, 32, 107, 10>>
    \* # api_key = k\n
TxtCfgOtherKey == <<91, 116, 101, 115, 115, 93, 10, 114, 99, 108, 111, 110, 101, 95, 114, 101, 109, 111, 116, 101, 32, 61, 32, 100, 114, 105, 118, 101, 10>>
    \* [tess]\nrclone_remote = drive\n
TxtCfgNoValue == <<97, 112, 105, 95, 107, 101, 121, 10>>
    \* api_key\n

\* What main can find at the configuration path: one file it can use, and the
\* ones it cannot.
RunConfigFiles ==
    {NoFile, DeniedFile, BrokenFile, File(<< >>), File(TxtCfgGood), File(TxtCfgBlankKey),
     File(TxtCfgCommented), File(TxtCfgOtherKey), File(TxtCfgNoValue)}

\* api.NewClient returns an error for a blank key.
NewClientFails(apiKey) == TrimSpace(apiKey) = << >>

MainStartIgnoresConfigError ==
    /\ pc = "start"
    /\ \E pathFound \in BOOLEAN, f \in RunConfigFiles :
          LET c == IF pathFound THEN loadConfigFromTOML(f) ELSE LoadFailed("nopath") IN
          /\ cfg' = [loaded |-> TRUE, pathFound |-> pathFound, file |-> f,
                     err |-> c.err, cfg |-> c.cfg]
          /\ StartSpinner("me")
    /\ UNCHANGED <<lm, doneQ, reports, selIdx, cycles, filtered, idx, reviews,
                   censorFlag, md, files, stdout, folderSet, tpl>>
    /\ UNCHANGED <<mdVars, filterVars, textVars, nameVars, setupVars>>

\* main up to the first runWithSpinner: the config is loaded, the client made.
MainStart ==
    /\ pc = "start"
    /\ \E pathFound \in BOOLEAN, f \in RunConfigFiles :
          LET c == IF pathFound THEN loadConfigFromTOML(f) ELSE LoadFailed("nopath") IN
          /\ cfg' = [loaded |-> TRUE, pathFound |-> pathFound, file |-> f,
                     err |-> c.err, cfg |-> c.cfg]
          /\ IF c.err # "nil" \/ NewClientFails(c.cfg.APIKey)
             THEN Fatal /\ UNCHANGED <<sp, inFlight, req, ev>>
             ELSE StartSpinner("me")
    /\ UNCHANGED <<lm, doneQ, reports, selIdx, cycles, filtered, idx, reviews,
                   censorFlag, md, files, stdout, folderSet, tpl>>
    /\ UNCHANGED <<mdVars, filterVars, textVars, nameVars, setupVars>>

\* p.Run of a spinner has returned: what main does with runWithSpinner's return.
Resumes(stage) == pc = stage /\ sp.quit

AfterMe ==
    /\ Resumes("me")
    /\ IF RwsReturn(sp).err # "nil"
       THEN Fatal /\ UNCHANGED <<sp, inFlight, req, ev>>
       ELSE StartSpinner("reports")
    /\ UNCHANGED <<lm, doneQ, reports, selIdx, cycles, filtered, idx, reviews,
                   censorFlag, md, files, stdout, folderSet, tpl>>
    /\ UNCHANGED <<cfg, mdVars, filterVars, textVars, nameVars, setupVars>>

AfterReports ==
    /\ Resumes("reports")
    /\ IF RwsReturn(sp).err # "nil"
       THEN Fatal /\ UNCHANGED <<lm, reports, ev>>
       ELSE \E sorted \in SortSlice(RwsReturn(sp).result.v) :
               /\ reports' = sorted
               /\ StartList("users", Names(sorted))
    /\ UNCHANGED <<sp, inFlight, req, doneQ, selIdx, cycles, filtered, idx, reviews,
                   censorFlag, md, files, stdout, folderSet, tpl>>
    /\ UNCHANGED <<cfg, mdVars, filterVars, textVars, nameVars, setupVars>>

AfterUsersByName ==
    /\ pc = "users" /\ lm.quit
    /\ IF lm.runErr
       THEN Fatal /\ UNCHANGED <<sp, inFlight, req, ev, selIdx>>
       ELSE IF lm.choice = << >> \/ Len(reports) = 0
       THEN Return /\ UNCHANGED <<sp, inFlight, req, ev, selIdx>>
       ELSE /\ selIdx' = (CHOOSE i \in 1..Len(reports) :
                             /\ reports[i].Name = lm.choice
                             /\ \A j \in 1..(i - 1) : reports[j].Name # lm.choice) - 1
            /\ StartSpinner("cycles")
    /\ UNCHANGED <<lm, doneQ, reports, cycles, filtered, idx, reviews,
                   censorFlag, md, files, stdout, folderSet, tpl>>
    /\ UNCHANGED <<cfg, mdVars, filterVars, textVars, nameVars, setupVars>>

AfterUsers ==
    /\ pc = "users" /\ lm.quit
    /\ IF lm.runErr
       THEN Fatal /\ UNCHANGED <<sp, inFlight, req, ev, selIdx>>
       ELSE IF lm.choice = << >> \/ Len(reports) = 0
       THEN Return /\ UNCHANGED <<sp, inFlight, req, ev, selIdx>>
       ELSE /\ selIdx' = lm.cursor
            /\ IF lm.cursor < 0 \/ lm.cursor >= Len(reports)
               THEN Return /\ UNCHANGED <<sp, inFlight, req, ev>>
               ELSE StartSpinner("cycles")
    /\ UNCHANGED <<lm, doneQ, reports, cycles, filtered, idx, reviews,
                   censorFlag, md, files, stdout, folderSet, tpl>>
    /\ UNCHANGED <<cfg, mdVars, filterVars, textVars, nameVars, setupVars>>

AfterCycles ==
    /\ Resumes("cycles")
    /\ IF RwsReturn(sp).err # "nil"
       THEN Fatal /\ UNCHANGED <<sp, inFlight, req, ev, cycles>>
       ELSE /\ cycles' = RwsReturn(sp).result.v
            /\ StartSpinner("filter")
    /\ UNCHANGED <<lm, doneQ, reports, selIdx, filtered, idx, reviews,
                   censorFlag, md, files, stdout, folderSet, tpl>>
    /\ UNCHANGED <<cfg, mdVars, filterVars, textVars, nameVars, setupVars>>

AfterFilterShowsEmpty ==
    /\ Resumes("filter")
    /\ IF RwsReturn(sp).err # "nil"
       THEN Fatal /\ UNCHANGED <<lm, filtered, ev>>
       ELSE \E sorted \in SortSlice(RwsReturn(sp).result.v) :
               /\ filtered' = sorted
               /\ StartList("cycleList", Names(sorted))
    /\ UNCHANGED <<sp, inFlight, req, doneQ, reports, selIdx, cycles, idx, reviews,
                   censorFlag, md, files, stdout, folderSet, tpl>>
    /\ UNCHANGED <<cfg, mdVars, filterVars, textVars, nameVars, setupVars>>

AfterFilter ==
    /\ Resumes("filter")
    /\ IF RwsReturn(sp).err # "nil"
       THEN Fatal /\ UNCHANGED <<lm, filtered, ev>>
       ELSE IF Len(RwsReturn(sp).result.v) = 0
       THEN Return /\ filtered' = RwsReturn(sp).result.v /\ UNCHANGED <<lm, ev>>
       ELSE \E sorted \in SortSlice(RwsReturn(sp).result.v) :
               /\ filtered' = sorted
               /\ StartList("cycleList", Names(sorted))
    /\ UNCHANGED <<sp, inFlight, req, doneQ, reports, selIdx, cycles, idx, reviews,
                   censorFlag, md, files, stdout, folderSet, tpl>>
    /\ UNCHANGED <<cfg, mdVars, filterVars, textVars, nameVars, setupVars>>

AfterCycleListProceedsOnAbort ==
    /\ pc = "cycleList" /\ lm.quit
    /\ IF lm.runErr
       THEN Fatal /\ UNCHANGED <<sp, inFlight, req, ev, idx>>
       ELSE /\ idx' = lm.cursor
            /\ IF lm.cursor < 0 \/ lm.cursor >= Len(filtered)
               THEN Return /\ UNCHANGED <<sp, inFlight, req, ev>>
               ELSE StartSpinner("reviews")
    /\ UNCHANGED <<lm, doneQ, reports, selIdx, cycles, filtered, reviews,
                   censorFlag, md, files, stdout, folderSet, tpl>>
    /\ UNCHANGED <<cfg, mdVars, filterVars, textVars, nameVars, setupVars>>

AfterCycleList ==
    /\ pc = "cycleList" /\ lm.quit
    /\ IF lm.runErr
       THEN Fatal /\ UNCHANGED <<sp, inFlight, req, ev, idx>>
       ELSE IF lm.choice = << >>
       THEN Return /\ UNCHANGED <<sp, inFlight, req, ev, idx>>
       ELSE /\ idx' = lm.cursor
            /\ IF lm.cursor < 0 \/ lm.cursor >= Len(filtered)
               THEN Return /\ UNCHANGED <<sp, inFlight, req, ev>>
               ELSE StartSpinner("reviews")
    /\ UNCHANGED <<lm, doneQ, reports, selIdx, cycles, filtered, reviews,
                   censorFlag, md, files, stdout, folderSet, tpl>>
    /\ UNCHANGED <<cfg, mdVars, filterVars, textVars, nameVars, setupVars>>

AfterReviewsIgnoresErr ==
    /\ Resumes("reviews")
    /\ reviews' = IF RwsReturn(sp).err # "nil" THEN << >> ELSE RwsReturn(sp).result.v
    /\ censorFlag' \in BOOLEAN
    /\ StartSpinner("markdown")
    /\ UNCHANGED <<lm, doneQ, reports, selIdx, cycles, filtered, idx,
                   md, files, stdout, folderSet, tpl>>
    /\ UNCHANGED <<cfg, mdVars, filterVars, textVars, nameVars, setupVars>>

AfterReviews ==
    /\ Resumes("reviews")
    /\ IF RwsReturn(sp).err # "nil"
       THEN Fatal /\ UNCHANGED <<sp, inFlight, req, ev, reviews, censorFlag>>
       ELSE /\ reviews' = RwsReturn(sp).result.v
            /\ censorFlag' \in BOOLEAN
            /\ StartSpinner("markdown")
    /\ UNCHANGED <<lm, doneQ, reports, selIdx, cycles, filtered, idx,
                   md, files, stdout, folderSet, tpl>>
    /\ UNCHANGED <<cfg, mdVars, filterVars, textVars, nameVars, setupVars>>

\* From the return of the "Generating markdown" spinner to the first conversion
\* spinner, the first template copy or the end of main.
AfterMarkdown ==
    /\ Resumes("markdown")
    /\ IF RwsReturn(sp).err # "nil"
       THEN Fatal /\ UNCHANGED <<sp, inFlight, req, ev, md, files, stdout, folderSet, tpl>>
       ELSE LET fname == outputFileName(reports[selIdx + 1].Name, filtered[idx + 1].Name) IN
            /\ md' = RwsReturn(sp).result.v
            /\ \E written \in BOOLEAN :
                  IF ~written
                  THEN Fatal /\ UNCHANGED <<sp, inFlight, req, ev, files, stdout, folderSet, tpl>>
                  ELSE /\ files' = Append(files, [name |-> fname, data |-> md'])
                       /\ \E folder \in BOOLEAN, rcloneAvailable \in BOOLEAN,
                             hasPandoc \in BOOLEAN :
                             /\ folderSet' = folder
                             /\ IF folder /\ ~rcloneAvailable
                                THEN Fatal /\ UNCHANGED <<sp, inFlight, req, ev, stdout, tpl>>
                                ELSE IF folder /\ hasPandoc
                                THEN StartSpinner("convert") /\ UNCHANGED <<stdout, tpl>>
                                ELSE Report(fname, << >>, folder)
    /\ UNCHANGED <<lm, doneQ, reports, selIdx, cycles, filtered, idx, reviews, censorFlag>>
    /\ UNCHANGED <<cfg, mdVars, filterVars, textVars, nameVars, setupVars>>

\* The pdf and the docx branch alike: conversion, then upload.
AfterConvert ==
    /\ Resumes("convert")
    /\ IF RwsReturn(sp).err # "nil"
       THEN Fatal /\ UNCHANGED <<sp, inFlight, req, ev>>
       ELSE StartSpinner("upload")
    /\ UNCHANGED <<lm, doneQ, reports, selIdx, cycles, filtered, idx, reviews,
                   censorFlag, md, files, stdout, folderSet, tpl>>
    /\ UNCHANGED <<cfg, mdVars, filterVars, textVars, nameVars, setupVars>>

AfterUpload ==
    /\ Resumes("upload")
    /\ IF RwsReturn(sp).err # "nil"
       THEN Fatal /\ UNCHANGED <<sp, inFlight, req, ev, stdout, tpl>>
       ELSE Report(files[Len(files)].name, RwsReturn(sp).result.v, folderSet)
    /\ UNCHANGED <<lm, doneQ, reports, selIdx, cycles, filtered, idx, reviews,
                   censorFlag, md, files, folderSet>>
    /\ UNCHANGED <<cfg, mdVars, filterVars, textVars, nameVars, setupVars>>

\* A template copy that fails is reported and the loop goes on.
AfterTemplate ==
    /\ Resumes("template")
    /\ CopyNext(Tail(tpl))
    /\ UNCHANGED <<lm, doneQ, reports, selIdx, cycles, filtered, idx, reviews,
                   censorFlag, md, files, stdout, folderSet>>
    /\ UNCHANGED <<cfg, mdVars, filterVars, textVars, nameVars, setupVars>>

-----------------------------------------------------------------------------
(* The tea programs: the messages their Update handles until it quits.     *)

Fetching == pc \in SpinStages /\ ~sp.quit
Listing == pc \in ListStages /\ ~lm.quit

\* ev keeps the last message that was no tick (a tick shows in sp.frame); for a
\* list it also keeps the cursor the message found.
SpinHandle(msg) ==
    LET u == SpinUpdate(sp, msg) IN
    /\ sp' = [u.model EXCEPT !.quit = u.quit]
    /\ ev' = IF msg.type = "tick" /\ ~u.quit THEN ev ELSE [type |-> msg.type, key |-> "", at |-> 0]

\* The spinner's tick command fires.
SpinTick ==
    /\ Fetching
    /\ SpinHandle(TickMsg)
    /\ UNCHANGED <<pc, exit, lm, inFlight, req, doneQ, reports, selIdx, cycles, filtered, idx,
                   reviews, censorFlag, md, files, stdout, folderSet, tpl>>
    /\ UNCHANGED <<cfg, mdVars, filterVars, textVars, nameVars, setupVars>>

\* The operator presses a key while the spinner runs.
SpinKey ==
    /\ Fetching
    /\ \E k \in SpinKeys : SpinHandle(KeyMsg(k))
    /\ UNCHANGED <<pc, exit, lm, inFlight, req, doneQ, reports, selIdx, cycles, filtered, idx,
                   reviews, censorFlag, md, files, stdout, folderSet, tpl>>
    /\ UNCHANGED <<cfg, mdVars, filterVars, textVars, nameVars, setupVars>>

\* run of spinModel.Init: m.work returns and its doneMsg is sent to the program.
WorkReturn ==
    /\ exit = "running"
    /\ pc \in inFlight
    /\ \A d \in doneQ : d.stage # pc
    /\ \E r \in WorkResults(pc) :
          doneQ' = doneQ \cup {[stage |-> pc, msg |-> DoneMsg(r.result, r.err)]}
    /\ UNCHANGED <<pc, exit, sp, lm, inFlight, req, reports, selIdx, cycles, filtered, idx,
                   reviews, censorFlag, md, files, stdout, folderSet, tpl, ev>>
    /\ UNCHANGED <<cfg, mdVars, filterVars, textVars, nameVars, setupVars>>

\* The program hands the doneMsg of its work function to Update.
SpinDone ==
    /\ Fetching
    /\ \E d \in doneQ :
          /\ d.stage = pc
          /\ SpinHandle(d.msg)
          /\ doneQ' = doneQ \ {d}
          /\ inFlight' = inFlight \ {d.stage}
    /\ req' = req
    /\ UNCHANGED <<pc, exit, lm, reports, selIdx, cycles, filtered, idx,
                   reviews, censorFlag, md, files, stdout, folderSet, tpl>>
    /\ UNCHANGED <<cfg, mdVars, filterVars, textVars, nameVars, setupVars>>

\* p.Run of runWithSpinner returns an error.
SpinRunError ==
    /\ Fetching
    /\ sp' = [sp EXCEPT !.quit = TRUE, !.runErr = TRUE]
    /\ ev' = [type |-> "runErr", key |-> "", at |-> 0]
    /\ UNCHANGED <<pc, exit, lm, inFlight, req, doneQ, reports, selIdx, cycles, filtered, idx,
                   reviews, censorFlag, md, files, stdout, folderSet, tpl>>
    /\ UNCHANGED <<cfg, mdVars, filterVars, textVars, nameVars, setupVars>>

ListHandle(msg) ==
    LET u == ListUpdate(lm, msg) IN
    /\ lm' = [u.model EXCEPT !.quit = u.quit]
    /\ ev' = [type |-> msg.type, key |-> IF msg.type = "key" THEN msg.key ELSE "",
              at |-> lm.cursor]

\* The operator presses a key while the list is shown.
ListKey ==
    /\ Listing
    /\ \E k \in Keys : ListHandle(KeyMsg(k))
    /\ UNCHANGED <<pc, exit, sp, inFlight, req, doneQ, reports, selIdx, cycles, filtered, idx,
                   reviews, censorFlag, md, files, stdout, folderSet, tpl>>
    /\ UNCHANGED <<cfg, mdVars, filterVars, textVars, nameVars, setupVars>>

\* The list program gets a message that is no key (a window size, say).
ListOther ==
    /\ Listing
    /\ ListHandle([type |-> "other"])
    /\ UNCHANGED <<pc, exit, sp, inFlight, req, doneQ, reports, selIdx, cycles, filtered, idx,
                   reviews, censorFlag, md, files, stdout, folderSet, tpl>>
    /\ UNCHANGED <<cfg, mdVars, filterVars, textVars, nameVars, setupVars>>

\* Run of a list program returns an error.
ListRunError ==
    /\ Listing
    /\ lm' = [lm EXCEPT !.quit = TRUE, !.runErr = TRUE]
    /\ ev' = [type |-> "runErr", key |-> "", at |-> 0]
    /\ UNCHANGED <<pc, exit, sp, inFlight, req, doneQ, reports, selIdx, cycles, filtered, idx,
                   reviews, censorFlag, md, files, stdout, folderSet, tpl>>
    /\ UNCHANGED <<cfg, mdVars, filterVars, textVars, nameVars, setupVars>>

-----------------------------------------------------------------------------
(* buildMarkdown on its own: the classification loop, then the rendering.  *)

NoDoc == [done |-> FALSE]

\* The subject and the cycle buildMarkdown is called with on its own.
MdUser == <<65, 108>>   \* "Al"
MdCycle == <<66>>       \* "B"

TxtBlank == <<32, 32>>  \* "  "

\* The records a review list is made of: per question a peer record with a
\* comment and a "self" record; a peer record with a blank comment, a peer
\* record without response.
MdReviewChoices ==
    {Review(TxtPeer, q, RvA, Response(Ptr(TxtOk), << >>, NilPtr, NilPtr)) : q \in QIDs}
    \cup {Review(StrSelf, q, << >>, Response(Ptr(TxtOk), << >>, NilPtr, NilPtr)) : q \in QIDs}
    \cup {Review(TxtPeer, Q1, RvB, Response(Ptr(TxtBlank), << >>, NilPtr, NilPtr)),
          Review(TxtPeer, Q2, RvB, NoResponse)}

MdReviewLists == UNION {[1..n -> MdReviewChoices] : n \in 0..MaxReviews}

\* Lookups that fail for Q2 in both loops.
MdLookFailing ==
    [peerQ |-> [q \in QIDs |-> [err |-> q = Q2, Body |-> q]],
     selfQ |-> [q \in QIDs |-> [err |-> q = Q2, Body |-> q]],
     user |-> [r \in ReviewerIDs |-> [err |-> r = RvB, Name |-> <<65, 108>>]]]

MdLooks == {RunLook, MdLookFailing}

\* One iteration of the classification loop.
ClassifyStep ==
    /\ ri < Len(rs)
    /\ cl' = ClassifyOne(cl, rs[ri + 1])
    /\ ri' = ri + 1
    /\ UNCHANGED <<rs, lk, doc>>
    /\ UNCHANGED <<mainVars, filterVars, textVars, nameVars, setupVars>>

\* The rest of buildMarkdown: the document is written, with what the lookups
\* return and with censor on or off.
RenderStep ==
    /\ ri = Len(rs)
    /\ ~doc.done
    /\ \E look \in MdLooks, censor \in BOOLEAN :
          /\ lk' = look
          /\ doc' = [done |-> TRUE, censor |-> censor,
                     text |-> Render(MdUser, MdCycle, cl, look, censor)]
    /\ UNCHANGED <<rs, ri, cl>>
    /\ UNCHANGED <<mainVars, filterVars, textVars, nameVars, setupVars>>

-----------------------------------------------------------------------------
(* buildMarkdown on records of every shape.                                *)

TxtAgree == <<83, 116, 114, 111, 110, 103, 108, 121, 32, 97, 103, 114, 101, 101>>   \* "Strongly agree"
TxtGood == <<71, 111, 111, 100>>    \* "Good"
TxtLines == <<97, 32, 98, 10, 99>>   \* "a b\nc"
TxtTagsOnly == <<60, 105, 62, 60, 47, 105, 62>>   \* "<i></i>"
TxtX == <<120>>     \* "x"
TxtY == <<121>>     \* "y"
TxtSelfCap == <<83, 101, 108, 102>>    \* "Self"

\* The shapes a review record comes in.  Peer records (any type but "self"):
\*   comment and numeric rating; blank comment and nothing else; choices only;
\*   numeric rating 0 only, no reviewer; multi-line comment, rating label and
\*   numeric rating; empty rating label only; comment, empty rating label and
\*   numeric rating; no response; type "" with comment and rating label.
\* Self records ("self" in any case):
\*   comment; no response; blank comment and two choices; a comment of tags
\*   only; numeric rating only.
RecChoices ==
    { Review(TxtPeer, Q1, RvA, Response(Ptr(TxtOk), << >>, NilPtr, Ptr(35))),
      Review(TxtPeer, Q1, RvA, Response(Ptr(TxtBlank), << >>, NilPtr, NilPtr)),
      Review(TxtPeer, Q1, RvB, Response(NilPtr, <<TxtAgree>>, NilPtr, NilPtr)),
      Review(TxtPeer, Q2, << >>, Response(NilPtr, << >>, NilPtr, Ptr(0))),
      Review(TxtPeer, Q1, RvA, Response(Ptr(TxtLines), << >>, Ptr(TxtGood), Ptr(35))),
      Review(TxtPeer, Q2, RvA, Response(NilPtr, << >>, Ptr(<< >>), NilPtr)),
      Review(TxtPeer, Q1, RvA, Response(Ptr(TxtOk), << >>, Ptr(<< >>), Ptr(35))),
      Review(TxtPeer, Q1, RvA, NoResponse),
      Review(<< >>, Q2, RvA, Response(Ptr(TxtOk), << >>, Ptr(TxtGood), NilPtr)),
      Review(StrSelf, Q1, << >>, Response(Ptr(TxtOk), << >>, NilPtr, NilPtr)),
      Review(TxtSELF, Q1, << >>, NoResponse),
      Review(TxtSelfCap, Q2, << >>, Response(Ptr(TxtBlank), <<TxtX, TxtY>>, NilPtr, NilPtr)),
      Review(StrSelf, Q2, << >>, Response(Ptr(TxtTagsOnly), << >>, NilPtr, NilPtr)),
      Review(StrSelf, Q1, RvA, Response(NilPtr, << >>, NilPtr, Ptr(35))) }

RecLists == UNION {[1..n -> RecChoices] : n \in 0..MaxRecords}

BodyTagged == <<60, 112, 62, 81, 49, 60, 47, 112, 62>>     \* "<p>Q1</p>"
BodyEntity == <<97, 32, 38, 97, 109, 112, 59, 32, 98, 10, 99, 32>>     \* "a &amp; b\nc "
NameTwoWords == <<65, 108, 32, 66>>   \* "Al B"

\* Lookups that return question bodies with markup, the same in both loops.
LookTagged ==
    [peerQ |-> [q \in QIDs |-> [err |-> FALSE, Body |-> IF q = Q1 THEN BodyTagged ELSE BodyEntity]],
     selfQ |-> [q \in QIDs |-> [err |-> FALSE, Body |-> IF q = Q1 THEN BodyTagged ELSE BodyEntity]],
     user |-> [r \in ReviewerIDs |-> [err |-> FALSE, Name |-> NameTwoWords]]]

\* Lookups whose question body changed between the two loops, and a user with
\* a blank name.
LookChanged ==
    [peerQ |-> [q \in QIDs |-> [err |-> FALSE, Body |-> q]],
     selfQ |-> [q \in QIDs |-> [err |-> FALSE, Body |-> TxtOk]],
     user |-> [r \in ReviewerIDs |-> [err |-> FALSE, Name |-> TxtBlank]]]

RecLooks == {RunLook, MdLookFailing, LookTagged, LookChanged}

\* The rest of buildMarkdown on records of every shape.
RenderRec ==
    /\ ri = Len(rs)
    /\ ~doc.done
    /\ \E look \in RecLooks, censor \in BOOLEAN :
          /\ lk' = look
          /\ doc' = [done |-> TRUE, censor |-> censor,
                     text |-> Render(MdUser, MdCycle, cl, look, censor)]
    /\ UNCHANGED <<rs, ri, cl>>
    /\ UNCHANGED <<mainVars, filterVars, textVars, nameVars, setupVars>>

-----------------------------------------------------------------------------
(* sanitizeText and mask on their own.                                     *)

NotMasked == [done |-> FALSE]

\* The pieces a text is made of:
\*   a  space  \n  \r  \t  <  >  &  amp;  lt;  <br>  </p>  <p>
Tokens ==
    { <<97>>, <<32>>, <<10>>, <<13>>, <<9>>, <<60>>, <<62>>, <<38>>,
      <<97, 109, 112, 59>>, <<108, 116, 59>>,
      <<60, 98, 114, 62>>, <<60, 47, 112, 62>>, <<60, 112, 62>> }

RECURSIVE Concat(_)
Concat(parts) == IF parts = << >> THEN << >> ELSE Head(parts) \o Concat(Tail(parts))

TxtFolding == <<97, 60, 98, 114, 62, 98, 60, 47, 112, 62, 99, 60, 112, 62, 100>>  \* "a<br>b</p>c<p>d"
TxtBreaks == <<97, 60, 98, 114, 47, 62, 98, 60, 98, 114, 32, 47, 62, 99>>         \* "a<br/>b<br />c"
TxtEntities == <<38, 97, 109, 112, 59, 38, 35, 51, 57, 59>>                        \* "&amp;&#39;"
TxtJane == <<74, 97, 110, 101, 32, 68, 111, 101, 58, 32, 103, 114, 101, 97, 116, 32, 106, 111, 98, 10>>  \* "Jane Doe: great job\n"

TxtCRLF == <<97, 13, 10, 98>>      \* "a\r\nb"

\* The texts sanitizeText and mask are called with: up to MaxTokens tokens, and
\* five longer ones.
TextInputs ==
    UNION {{Concat(f) : f \in [1..n -> Tokens]} : n \in 0..MaxTokens}
    \cup {TxtFolding, TxtBreaks, TxtEntities, TxtJane, TxtCRLF}

\* sanitizeText is called on the text given, then on its own result.
SanitizeStep ==
    /\ ~mk.done
    /\ Len(sn) < 2
    /\ sn' = Append(sn, sanitizeText(IF sn = << >> THEN tx ELSE sn[Len(sn)]))
    /\ UNCHANGED <<tx, mk>>
    /\ UNCHANGED <<mainVars, mdVars, filterVars, nameVars, setupVars>>

\* mask is called on the text given, with censor on or off.
MaskStep ==
    /\ ~mk.done
    /\ sn = << >>
    /\ \E censor \in BOOLEAN :
          mk' = [done |-> TRUE, censor |-> censor, text |-> mask(tx, censor)]
    /\ UNCHANGED <<tx, sn>>
    /\ UNCHANGED <<mainVars, mdVars, filterVars, nameVars, setupVars>>

-----------------------------------------------------------------------------
(* outputFileName on its own.                                              *)

NoName == [done |-> FALSE, user |-> << >>, cycle |-> << >>]

\* The pieces a subject name is made of:
\*   A  z  9  space  tab  -  /  \  _  .  e-acute
NameTokens ==
    { <<65>>, <<122>>, <<57>>, <<32>>, <<9>>, <<45>>, <<47>>, <<92>>, <<95>>, <<46>>, <<233>> }

TxtAda == <<65, 100, 97, 32, 76, 111, 118, 101, 108, 97, 99, 101>>     \* "Ada Lovelace"
TxtAdaB == <<65, 100, 97, 32, 66, 46, 32, 76, 111, 118, 101, 108, 97, 99, 101>>     \* "Ada B. Lovelace"
TxtMary == <<32, 77, 97, 114, 121, 45, 74, 97, 110, 101, 32, 32, 79, 39, 78, 101, 105, 108, 32>>     \* " Mary-Jane  O'Neil "
TxtH1 == <<50, 48, 50, 52, 32, 72, 49>>     \* "2024 H1"
TxtSlashes == <<81, 49, 47, 81, 50, 32, 45, 32, 120, 92, 121, 95>>     \* "Q1/Q2 - x\y_"
TxtDashes == <<45, 45>>     \* "--"

\* The subject names outputFileName is called with: up to MaxNameTokens
\* tokens, and three longer ones.
UserNameInputs ==
    UNION {{Concat(f) : f \in [1..n -> NameTokens]} : n \in 0..MaxNameTokens}
    \cup {TxtAda, TxtAdaB, TxtMary}

\* The cycle names outputFileName is called with.
CycleNameInputs == {TxtH1, TxtSlashes, TxtDashes, << >>}

\* outputFileName is called.
NameFile ==
    /\ ~fn.done
    /\ fn' = [done |-> TRUE, user |-> fn.user, cycle |-> fn.cycle,
              file |-> outputFileName(fn.user, fn.cycle)]
    /\ UNCHANGED <<mainVars, mdVars, filterVars, textVars, setupVars>>

-----------------------------------------------------------------------------
(* RunSetup of internal/setup.go over the file at the configuration path.  *)

NoSetup == [at |-> "idle"]

\* The characters an api_key value is made of: k, backslash, double quote,
\* space.
KeyRunes == {107, 92, 34, 32}

RECURSIVE KeyValues(_)
KeyValues(n) ==
    IF n = 0 THEN {<< >>}
    ELSE LET shorter == KeyValues(n - 1)
         IN shorter \cup {<<c>> \o v : c \in KeyRunes, v \in {w \in shorter : Len(w) = n - 1}}

\* How a value stands in a line written by hand: bare, or inside a pair of
\* double or single quotes.
Wrapped(v) == {v, <<34>> \o v \o <<34>>, <<39>> \o v \o <<39>>}

\* The api_key lines, and the lines that may follow them.
KeyLineTexts ==
    {StrApiKey \o <<32, 61, 32>> \o w \o <<10>> : w \in UNION {Wrapped(v) : v \in KeyValues(MaxKeyLen)}}

TxtRemoteDrive == StrRcloneRemote \o <<32, 61, 32, 34>> \o StrDrive \o <<34, 10>>
TxtRemoteR == StrRcloneRemote \o <<32, 61, 32, 114, 10>>     \* rclone_remote = r
TxtRemotePadded == StrRcloneRemote \o <<32, 61, 32, 34, 32, 100, 32, 34, 10>>     \* rclone_remote = " d "
TxtTemplateHub == StrTemplateHubID \o <<32, 61, 32, 34, 104, 34, 10>>     \* template_hub_id = "h"

RemoteLineTexts == {<< >>, TxtRemoteDrive, TxtRemoteR, TxtRemotePadded}
TemplateLineTexts == {<< >>, TxtTemplateHub}

\* What setup can find at the configuration path.
SetupFiles ==
    {NoFile, DeniedFile, BrokenFile}
    \cup {File(k \o r \o t) : k \in KeyLineTexts, r \in RemoteLineTexts, t \in TemplateLineTexts}

\* What the operator types before Enter at the two prompts: nothing, a space,
\* or a value.
KeyTyped == {<< >>, <<32>>, <<110>>}
RemoteTyped == {<< >>, <<114, 50>>}

\* RunSetup up to the first prompt: os.Stat and LoadConfig of the existing
\* file.  before keeps what LoadConfig returned.
SetupStart ==
    /\ su.at = "idle"
    /\ LET l == LoadConfig(disk)
           had == disk.kind # "missing" /\ l.err = "nil"
       IN su' = [at |-> "key", before |-> l, hadExisting |-> had,
                 existing |-> IF had THEN l.cfg ELSE ZeroConfig,
                 keyTyped |-> << >>, remoteTyped |-> << >>,
                 apiKey |-> << >>, saved |-> ZeroConfig]
    /\ disk' = disk
    /\ UNCHANGED <<mainVars, mdVars, filterVars, textVars, nameVars>>

\* The API key prompt: the line read replaces the existing key unless it is
\* blank; setup ends with "no API key provided" when there is no key.
SetupKey ==
    /\ su.at = "key"
    /\ \E typed \in KeyTyped :
          LET line == TrimSpace(typed)
              apiKey == IF line # << >> THEN line ELSE su.existing.APIKey
          IN su' = [su EXCEPT !.at = IF TrimSpace(apiKey) = << >> THEN "failed" ELSE "remote",
                              !.keyTyped = typed,
                              !.apiKey = apiKey]
    /\ disk' = disk
    /\ UNCHANGED <<mainVars, mdVars, filterVars, textVars, nameVars>>

\* The remote prompt and SaveConfig: the existing remote or "drive", replaced
\* by the line read unless it is blank; the template IDs of an existing
\* config are kept.  A failed write leaves the file as it was or empty.
SetupRemote ==
    /\ su.at = "remote"
    /\ \E typed \in RemoteTyped, written \in BOOLEAN, truncated \in BOOLEAN :
          LET rline == TrimSpace(typed)
              dflt == IF TrimSpace(su.existing.RcloneRemote) = << >>
                      THEN StrDrive ELSE su.existing.RcloneRemote
              rremote == IF rline # << >> THEN rline ELSE dflt
              c == [APIKey |-> su.apiKey,
                    RcloneRemote |-> TrimSpace(rremote),
                    TemplateHubID |-> IF su.hadExisting THEN su.existing.TemplateHubID ELSE << >>,
                    TemplateCoverID |-> IF su.hadExisting THEN su.existing.TemplateCoverID ELSE << >>,
                    TemplateReviewID |-> IF su.hadExisting THEN su.existing.TemplateReviewID ELSE << >>]
          IN IF written
             THEN /\ disk' = File(SaveConfig(c))
                  /\ su' = [su EXCEPT !.at = "done", !.remoteTyped = typed, !.saved = c]
             ELSE /\ disk' = IF truncated THEN File(<< >>) ELSE disk
                  /\ su' = [su EXCEPT !.at = "failed", !.remoteTyped = typed, !.saved = c]
    /\ UNCHANGED <<mainVars, mdVars, filterVars, textVars, nameVars>>

-----------------------------------------------------------------------------
(* The cycle filter on its own: the loop of the "Filtering cycles" work    *)
(* function, then main up to the cycle list.                               *)

NotShown == [shown |-> FALSE]

\* One iteration of the loop over cycles.
FilterStep ==
    /\ fi < Len(fCycles)
    /\ out' = out \o filterOne(fCycles[fi + 1], fUser)
    /\ fi' = fi + 1
    /\ UNCHANGED <<fCycles, fUser, shown>>
    /\ UNCHANGED <<mainVars, mdVars, textVars, nameVars, setupVars>>

\* main after the filter: no list when out is empty, else the sorted list.
FilterShow ==
    /\ fi = Len(fCycles)
    /\ ~shown.shown
    /\ out # << >>
    /\ \E sorted \in SortSlice(out) :
          shown' = [shown |-> TRUE, entries |-> sorted, list |-> newListModel(Names(sorted))]
    /\ UNCHANGED <<fCycles, fUser, fi, out>>
    /\ UNCHANGED <<mainVars, mdVars, textVars, nameVars, setupVars>>

-----------------------------------------------------------------------------
(* The specifications.                                                     *)

MainInit ==
    /\ pc = "start"
    /\ exit = "running"
    /\ sp = newSpinModel("none")
    /\ lm = newListModel(<< >>)
    /\ inFlight = {}
    /\ req = << >>
    /\ doneQ = {}
    /\ reports = << >>
    /\ selIdx = 0
    /\ cycles = << >>
    /\ filtered = << >>
    /\ idx = 0
    /\ reviews = << >>
    /\ censorFlag = FALSE
    /\ md = << >>
    /\ files = << >>
    /\ stdout = << >>
    /\ folderSet = FALSE
    /\ tpl = << >>
    /\ ev = NoEv
    /\ cfg = NotLoaded

MdIdle ==
    /\ rs = << >>
    /\ ri = 0
    /\ cl = ClassifyInit
    /\ lk = RunLook
    /\ doc = NoDoc

FilterIdle ==
    /\ fCycles = << >>
    /\ fUser = << >>
    /\ fi = 0
    /\ out = << >>
    /\ shown = NotShown

TextIdle ==
    /\ tx = << >>
    /\ sn = << >>
    /\ mk = NotMasked

NameIdle == fn = NoName

SetupIdle ==
    /\ disk = NoFile
    /\ su = NoSetup

\* A run of main.
Init == MainInit /\ MdIdle /\ FilterIdle /\ TextIdle /\ NameIdle /\ SetupIdle

Next ==
    \/ MainStart
    \/ SpinTick
    \/ SpinKey
    \/ WorkReturn
    \/ SpinDone
    \/ SpinRunError
    \/ ListKey
    \/ ListOther
    \/ ListRunError
    \/ AfterMe
    \/ AfterReports
    \/ AfterUsers
    \/ AfterCycles
    \/ AfterFilter
    \/ AfterCycleList
    \/ AfterReviews
    \/ AfterMarkdown
    \/ AfterConvert
    \/ AfterUpload
    \/ AfterTemplate

Spec == Init /\ [][Next]_vars

\* The steps of main itself.
MainStep ==
    \/ MainStart
    \/ AfterMe
    \/ AfterReports
    \/ AfterUsers
    \/ AfterCycles
    \/ AfterFilter
    \/ AfterCycleList
    \/ AfterReviews
    \/ AfterMarkdown
    \/ AfterConvert
    \/ AfterUpload
    \/ AfterTemplate

\* The operator ends the list shown, with a confirm or an abort.
ListEnds == ListKey /\ lm'.quit

\* A work function has been started and has not returned yet: the state in
\* which WorkReturn can happen (WorkResults is never empty).
WorkPending ==
    /\ exit = "running"
    /\ pc \in inFlight
    /\ \A d \in doneQ : d.stage # pc

\* A step of main, the delivery of a completion message, or the operator
\* ending a list.
Progress == MainStep \/ SpinDone \/ ListEnds

\* A run of main in which main goes on when it can, every completion message
\* is handed to the spinner, the operator ends every list shown, and every
\* work function returns.  The last conjunct is WF_vars(WorkReturn) with
\* ENABLED <<WorkReturn>>_vars written as the state predicate WorkPending.
SpecLive ==
    /\ Init
    /\ [][Next]_vars
    /\ WF_vars(Progress)
    /\ ([]<>~WorkPending \/ []<><<WorkReturn>>_vars)

\* A call of buildMarkdown on any bounded review list.
InitMd ==
    /\ MainInit
    /\ NameIdle
    /\ SetupIdle
    /\ FilterIdle
    /\ TextIdle
    /\ rs \in MdReviewLists
    /\ ri = 0
    /\ cl = ClassifyInit
    /\ lk = RunLook
    /\ doc = NoDoc

NextMd == ClassifyStep \/ RenderStep

SpecMd == InitMd /\ [][NextMd]_vars

\* The cycle filter on any bounded cycle list, for any user.
InitFilter ==
    /\ MainInit
    /\ NameIdle
    /\ SetupIdle
    /\ MdIdle
    /\ TextIdle
    /\ fCycles \in CycleLists
    /\ fUser \in {UserID(i) : i \in 1..(MaxReports + 1)}
    /\ fi = 0
    /\ out = << >>
    /\ shown = NotShown

NextFilter == FilterStep \/ FilterShow

SpecFilter == InitFilter /\ [][NextFilter]_vars

\* A call of buildMarkdown on a short list of records of every shape.
InitRec ==
    /\ MainInit
    /\ NameIdle
    /\ SetupIdle
    /\ FilterIdle
    /\ TextIdle
    /\ rs \in RecLists
    /\ ri = 0
    /\ cl = ClassifyInit
    /\ lk = RunLook
    /\ doc = NoDoc

NextRec == ClassifyStep \/ RenderRec

SpecRec == InitRec /\ [][NextRec]_vars

\* sanitizeText and mask on any bounded text.
InitText ==
    /\ MainInit
    /\ NameIdle
    /\ SetupIdle
    /\ MdIdle
    /\ FilterIdle
    /\ tx \in TextInputs
    /\ sn = << >>
    /\ mk = NotMasked

NextText == SanitizeStep \/ MaskStep

SpecText == InitText /\ [][NextText]_vars

\* outputFileName on any bounded subject name and cycle name.
InitName ==
    /\ MainInit
    /\ MdIdle
    /\ FilterIdle
    /\ TextIdle
    /\ SetupIdle
    /\ \E u \in UserNameInputs, c \in CycleNameInputs :
          fn = [done |-> FALSE, user |-> u, cycle |-> c]

NextName == NameFile

SpecName == InitName /\ [][NextName]_vars

\* RunSetup with any bounded file at the configuration path.
InitSetup ==
    /\ MainInit
    /\ MdIdle
    /\ FilterIdle
    /\ TextIdle
    /\ NameIdle
    /\ disk \in SetupFiles
    /\ su = NoSetup

NextSetup ==
    \/ SetupStart
    \/ SetupKey
    \/ SetupRemote

SpecSetup == InitSetup /\ [][NextSetup]_vars

-----------------------------------------------------------------------------
(* Properties of the selection workflow, checked under Spec.               *)

ConfirmKey(e) == e.type = "key" /\ e.key = "enter"
AbortKey(e) == e.type = "key" /\ e.key \in {"ctrl+c", "q"}

\* The list program has ended on a confirm over a list that is not empty.
Confirmed == lm.quit /\ ~lm.runErr /\ ConfirmKey(ev) /\ Len(lm.items) > 0

\* C2: in a Listing state with a non-empty list, confirm at any cursor position
\* records the item under the cursor as the selection, and main then advances:
\* after the user list the cycle fetch starts, after the cycle list the reviews
\* fetch starts, both for the record under the cursor.
C2_ConfirmSelectsAndAdvances ==
    [][ /\ (Listing /\ Len(lm.items) > 0 /\ ConfirmKey(ev'))
            => (lm'.quit /\ lm'.cursor = lm.cursor /\ lm'.choice = lm.items[lm.cursor + 1])
        /\ (pc = "users" /\ Confirmed)
            => (pc' = "cycles" /\ inFlight' = {"cycles"} /\ selIdx' = lm.cursor)
        /\ (pc = "cycleList" /\ Confirmed)
            => (pc' = "reviews" /\ inFlight' = {"reviews"} /\ idx' = lm.cursor)
      ]_vars

CursorInBounds ==
    /\ lm.cursor >= 0
    /\ lm.cursor <= (IF Len(lm.items) = 0 THEN 0 ELSE Len(lm.items) - 1)

\* C3: after any sequence of key inputs on a list of n items the cursor is
\* within 0 .. max(0, n-1); up at position 0 and down at the last position
\* leave it where it is.
C3_CursorClamped ==
    /\ CursorInBounds
    /\ [][ /\ CursorInBounds'
           /\ (Listing /\ ev'.type = "key" /\ ev'.key \in {"up", "k"} /\ lm.cursor = 0)
               => lm'.cursor = 0
           /\ (Listing /\ ev'.type = "key" /\ ev'.key \in {"down", "j"}
               /\ lm.cursor >= Len(lm.items) - 1)
               => lm'.cursor = lm.cursor
         ]_vars

C3_Witness ==
    /\ Listing /\ Len(lm.items) >= 2
    /\ ev.type = "key" /\ ev.key = "j"
    /\ ev.at = Len(lm.items) - 1 /\ lm.cursor = ev.at

\* The list program has ended on an abort.
Aborted == lm.quit /\ ~lm.runErr /\ AbortKey(ev)

\* C4: from the Listing state of either stage, abort records no selection
\* whatever the cursor moves before it, and main then returns: no further fetch
\* is started, no file is written and the exit status is not an error.
C4_AbortEndsRunCleanly ==
    [][ /\ (Listing /\ AbortKey(ev')) => (lm'.quit /\ lm'.choice = << >>)
        /\ (pc \in ListStages /\ Aborted)
            => (/\ pc' = "exit" /\ exit' = "ok"
                /\ inFlight' = {} /\ doneQ' = {}
                /\ files' = << >> /\ stdout' = << >>)
      ]_vars

C4_Witness ==
    /\ pc = "exit" /\ exit = "ok" /\ Aborted
    /\ Len(filtered) > 1 /\ lm.cursor > 0
    /\ inFlight = {} /\ files = << >>

\* The step hands the doneMsg d to spinModel.Update.
Delivers(d) == Fetching /\ d \in doneQ /\ doneQ' = doneQ \ {d}

\* The step hands a tick to spinModel.Update.
TickStep == Fetching /\ pc' = pc /\ sp'.frame # sp.frame

\* C5: a completion event ends the Fetching state whatever ticks came before,
\* and runWithSpinner returns exactly the result and the error the event
\* carries; a tick never ends the Fetching state and changes neither the stored
\* result nor the stored error.
C5_CompletionEndsFetching ==
    [][ /\ \A d \in doneQ :
              Delivers(d) => (/\ sp'.quit
                              /\ RwsReturn(sp').result = d.msg.result
                              /\ RwsReturn(sp').err = d.msg.err)
        /\ TickStep => (~sp'.quit /\ sp'.result = sp.result /\ sp'.err = sp.err)
      ]_vars

C5_Witness ==
    /\ pc = "cycles" /\ sp.quit /\ ~sp.runErr
    /\ sp.frame = 3 /\ sp.err = "err" /\ ev.type = "done"

\* C6: while a fetch is in flight a key (abort, confirm or a cursor move) does
\* not end the Fetching state and records or changes no selection; the
\* Fetching state ends only on the completion of the work function (or when
\* the program itself fails).
C6_KeysIgnoredWhileFetching ==
    [][ /\ (Fetching /\ ev' # ev /\ ev'.type = "key")
            => (/\ ~sp'.quit /\ pc' = pc /\ exit' = exit
                /\ sp'.result = sp.result /\ sp'.err = sp.err
                /\ lm' = lm /\ selIdx' = selIdx /\ idx' = idx
                /\ inFlight' = inFlight /\ doneQ' = doneQ)
        /\ (Fetching /\ sp'.quit) => ev'.type \in {"done", "runErr"}
      ]_vars

C6_Witness ==
    /\ Fetching /\ pc = "reviews" /\ ev.type = "key"
    /\ inFlight = {"reviews"} /\ selIdx = 1

\* runWithSpinner has returned the error of the work function of stage.
FetchFailed(stage) == pc = stage /\ sp.quit /\ ~sp.runErr /\ sp.err # "nil"

\* C7: when the fetch of the user list, of the cycle list or of the reviews
\* returns an error, main ends with a failure status: no later list or fetch
\* begins and no file is written.
C7_FetchErrorIsFatal ==
    [][ \A stage \in {"reports", "cycles", "reviews"} :
            FetchFailed(stage)
                => (/\ pc' = "exit" /\ exit' = "fatal"
                    /\ inFlight' = {} /\ lm' = lm
                    /\ files' = << >> /\ stdout' = << >>)
      ]_vars

C7_Witness ==
    /\ pc = "exit" /\ exit = "fatal"
    /\ sp.stage = "reviews" /\ sp.err = "err" /\ ~sp.runErr
    /\ files = << >>

\* C9: with an empty option list every input leaves the cursor at 0 and the
\* selection unset, confirm ends the Listing with no selection, and main then
\* returns with no file and no error; main returns in the same way, without
\* showing a list, when the filter finds no eligible cycle.
C9_EmptyListExitsCleanly ==
    [][ /\ (Listing /\ Len(lm.items) = 0)
            => (/\ lm'.cursor = 0 /\ lm'.choice = << >>
                /\ ConfirmKey(ev') => lm'.quit)
        /\ (pc \in ListStages /\ lm.quit /\ ~lm.runErr /\ Len(lm.items) = 0)
            => (pc' = "exit" /\ exit' = "ok" /\ files' = << >> /\ inFlight' = {})
        /\ (Resumes("filter") /\ RwsReturn(sp).err = "nil"
            /\ Len(RwsReturn(sp).result.v) = 0)
            => (pc' = "exit" /\ exit' = "ok" /\ files' = << >> /\ inFlight' = {}
                /\ lm' = lm)
      ]_vars

C9_Witness ==
    /\ pc = "exit" /\ exit = "ok"
    /\ Len(lm.items) = 0 /\ lm.quit /\ ConfirmKey(ev)
    /\ lm.cursor = 0 /\ lm.choice = << >> /\ files = << >>

\* a <= b in the lexicographic order of the code points.
LexLeq(a, b) ==
    \/ a = b
    \/ \E k \in 1..Len(b) :
          /\ k <= Len(a) + 1
          /\ SubSeq(a, 1, k - 1) = SubSeq(b, 1, k - 1)
          /\ k = Len(a) + 1 \/ a[k] < b[k]

\* C23: the items of the user list and of the cycle list are in
\* case-insensitive lexicographic order: the lower-cased name of every item is
\* at most that of the next one.
C23_ListsInCaseInsensitiveOrder ==
    pc \in ListStages =>
        \A i \in 1..(Len(lm.items) - 1) :
            LexLeq(ToLower(lm.items[i]), ToLower(lm.items[i + 1]))

C23_Witness ==
    /\ pc = "cycleList"
    /\ lm.items = << <<97>>, <<66>> >>
    /\ Names(reports) = << <<97>>, <<66>> >>

WroteLine(name) == [line |-> "Wrote", arg |-> name]

\* C24: once the output file is written the run reports its path: a run that
\* has ended after writing the file has printed "Wrote" with the file's name.
C24_WrittenPathReported ==
    (exit # "running" /\ files # << >>) =>
        \E i \in 1..Len(stdout) : stdout[i] = WroteLine(files[1].name)

\* The configuration files of the model that hold no api_key with a value
\* that is not blank: the empty file, a blank value, the key in a comment,
\* another key only, the key without a value.
FilesWithoutKey ==
    {File(<< >>), File(TxtCfgBlankKey), File(TxtCfgCommented), File(TxtCfgOtherKey),
     File(TxtCfgNoValue)}

\* The configuration main found cannot be used.
ConfigUnusable ==
    /\ cfg.loaded
    /\ cfg.pathFound
    /\ cfg.file \in {NoFile, DeniedFile, BrokenFile} \cup FilesWithoutKey

\* C25: when the configuration file is missing, cannot be read or holds no
\* api_key that is not blank, main has ended with os.Exit(1); no spinner was
\* started, no work function is or was in flight, and no file is written.
C25_BadConfigEndsBeforeAnyFetch ==
    ConfigUnusable =>
        /\ pc = "exit" /\ exit = "fatal"
        /\ cfg.err # "nil"
        /\ sp = newSpinModel("none")
        /\ inFlight = {} /\ doneQ = {}
        /\ files = << >> /\ stdout = << >>

C25_Witness ==
    /\ ConfigUnusable
    /\ cfg.file = File(TxtCfgBlankKey)
    /\ cfg.err = "nokey"
    /\ exit = "fatal"

\* The reviewee entries of cycle cy that are about user uid.
EntriesAbout(cy, uid) == {k \in 1..Len(cy.rv) : cy.rv[k].User = uid}

\* C26: the items of a list are the names of the records behind it, in the
\* same order; after a confirm main goes on with the record at the cursor, also
\* when records share a name: the cycles are filtered for the ID of the user at
\* the cursor, and the reviews are fetched from the reviews URL of an entry
\* about that user in the cycle at the cursor.
C26_SelectionFollowsCursor ==
    /\ pc \in {"users", "cycles", "filter"} =>
          /\ lm.items = Names(reports)
          /\ pc # "users" => /\ selIdx = lm.cursor
                             /\ lm.choice = reports[selIdx + 1].Name
          /\ pc = "filter" => req = reports[lm.cursor + 1].ID
    /\ pc \in {"cycleList", "reviews", "markdown"} =>
          /\ lm.items = Names(filtered)
          /\ \A i \in 1..Len(filtered) :
                LET own == EntriesAbout(filtered[i].Cycle, reports[selIdx + 1].ID)
                IN /\ own # {}
                   /\ filtered[i].Name = filtered[i].Cycle.Name
                   /\ filtered[i].ReviewsURL
                         = filtered[i].Cycle.rv[CHOOSE k \in own : \A j \in own : k <= j].Reviews
          /\ pc # "cycleList" => /\ idx = lm.cursor
                                 /\ lm.choice = filtered[idx + 1].Name
          /\ pc = "reviews" => req = filtered[lm.cursor + 1].ReviewsURL

C26_Witness ==
    /\ pc = "reviews"
    /\ Names(reports) = << <<97>>, <<97>> >>
    /\ selIdx = 1 /\ reports[2].ID = UserID(1)
    /\ Names(filtered) = << << >>, <<66>> >>
    /\ idx = 1
    /\ req = <<120>>

\* runWithSpinner has returned a result and no error.
Succeeded == sp.quit /\ ~sp.runErr /\ sp.err = "nil"

\* The file of the selection: named after the user and the cycle selected,
\* holding the document rendered from the reviews fetched.
FileOfSelection ==
    [name |-> outputFileName(reports[selIdx + 1].Name, filtered[idx + 1].Name),
     data |-> buildMarkdown(reports[selIdx + 1].Name, filtered[idx + 1].Name,
                            reviews, RunLook, censorFlag)]

\* C27: at most one file is written in a run, and it is the file of the
\* selection.  It is written only on the return of the rendering spinner with
\* a result; rendering starts only on the return of the reviews fetch with a
\* result, whose reviews it renders; the reviews fetch starts only on a confirm
\* in the cycle list; the cycle list is shown only after the cycle filter,
\* which runs only after the cycle fetch, which starts only on a confirm in the
\* user list.
C27_FileWrittenOnceAfterSelection ==
    /\ [](/\ Len(files) <= 1
          /\ files # << >> =>
                /\ pc \in {"convert", "upload", "template", "exit"}
                /\ selIdx < Len(reports) /\ idx < Len(filtered)
                /\ files[1] = FileOfSelection
                /\ md = files[1].data)
    /\ [][ /\ files' # files =>
                (files = << >> /\ pc = "markdown" /\ Succeeded /\ Len(files') = 1)
           /\ (pc' = "markdown" /\ pc # "markdown") =>
                (pc = "reviews" /\ Succeeded /\ reviews' = sp.result.v)
           /\ (pc' = "reviews" /\ pc # "reviews") =>
                (pc = "cycleList" /\ Confirmed /\ idx' = lm.cursor)
           /\ (pc' = "cycleList" /\ pc # "cycleList") => (pc = "filter" /\ Succeeded)
           /\ (pc' = "filter" /\ pc # "filter") => (pc = "cycles" /\ Succeeded)
           /\ (pc' = "cycles" /\ pc # "cycles") =>
                (pc = "users" /\ Confirmed /\ selIdx' = lm.cursor)
         ]_vars

C27_Witness ==
    /\ exit = "ok"
    /\ Len(files) = 1
    /\ Len(reviews) = 2
    /\ reports[selIdx + 1].Name = <<66>> /\ filtered[idx + 1].Name = <<97>>
    /\ files[1].name = <<98, 95, 95, 97, 46, 109, 100>>
    /\ files[1].data = buildMarkdown(<<66>>, <<97>>, reviews, RunLook, censorFlag)
    /\ stdout[1] = WroteLine(files[1].name)

\* The step hands a key that moves the cursor, or that the list ignores, to
\* listModel.Update.
MoveStep == Listing /\ ev' # ev /\ ev'.type = "key" /\ ~ConfirmKey(ev') /\ ~AbortKey(ev')

Terminal == pc = "exit" /\ exit \in {"ok", "fatal"}

\* C29: when every work function returns and its completion message is
\* delivered, and the operator confirms or aborts every list shown, the run
\* reaches a terminal outcome (main has returned or has exited with a failure);
\* a tick of a spinner and a cursor move never end a tea program and never
\* move main.
C29_RunTerminates ==
    /\ <>Terminal
    /\ [][ /\ TickStep => (~sp'.quit /\ lm' = lm)
           /\ MoveStep => (~lm'.quit /\ sp' = sp)
           /\ (TickStep \/ MoveStep) =>
                 (/\ pc' = pc /\ exit' = "running"
                  /\ files' = files /\ stdout' = stdout) ]_vars

C29_Witness ==
    /\ Terminal /\ exit = "ok"
    /\ files # << >>
    /\ tpl = << >> /\ sp.stage = "template"

-----------------------------------------------------------------------------
(* Properties of the cycle filter, checked under SpecFilter.               *)

\* A cycle is eligible when its reviewee fetch succeeded and some reviewee
\* entry is about the selected user.
Eligible(cy) == ~cy.rvErr /\ \E i \in 1..Len(cy.rv) : cy.rv[i].User = fUser

EntriesFor(entries, cy) == {i \in 1..Len(entries) : entries[i].Cycle = cy}

\* C8: the cycle list shown holds exactly one entry for each fetched cycle that
\* is eligible and none for any other cycle; a cycle whose reviewee fetch fails
\* and a cycle without a matching reviewee are passed over and the loop goes
\* on to the next cycle.
C8_EligibleCyclesShown ==
    /\ \A i \in 1..fi :
          Cardinality(EntriesFor(out, fCycles[i])) = (IF Eligible(fCycles[i]) THEN 1 ELSE 0)
    /\ \A j \in 1..Len(out) : \E i \in 1..fi : out[j].Cycle = fCycles[i]
    /\ shown.shown =>
          /\ fi = Len(fCycles)
          /\ Len(shown.entries) = Len(out)
          /\ \A i \in 1..Len(fCycles) :
                Cardinality(EntriesFor(shown.entries, fCycles[i]))
                    = (IF Eligible(fCycles[i]) THEN 1 ELSE 0)
          /\ shown.list.items = Names(shown.entries)

C8_Witness ==
    /\ shown.shown
    /\ Len(fCycles) = 3 /\ Len(shown.entries) = 1
    /\ fCycles[1].rvErr
    /\ \E i \in 1..3 : ~fCycles[i].rvErr /\ ~Eligible(fCycles[i])

-----------------------------------------------------------------------------
(* Properties of buildMarkdown, checked under SpecMd.                      *)

DividerLine == <<45, 45, 45>>   \* "---"

\* The lines of the document before the divider, the first line that is "---".
RECURSIVE BeforeDivider(_)
BeforeDivider(lines) ==
    IF lines = << >> \/ Head(lines) = DividerLine THEN << >>
    ELSE <<Head(lines)>> \o BeforeDivider(Tail(lines))

\* The lines of the document after the divider.
RECURSIVE AfterDivider(_)
AfterDivider(lines) ==
    IF lines = << >> THEN << >>
    ELSE IF Head(lines) = DividerLine THEN Tail(lines)
    ELSE AfterDivider(Tail(lines))

IsHeadingLine(l) == HasPrefix(l, StrH3)

RECURSIVE HeadingsIn(_)
HeadingsIn(lines) ==
    IF lines = << >> THEN << >>
    ELSE (IF IsHeadingLine(Head(lines))
          THEN <<SubSeq(Head(lines), Len(StrH3) + 1, Len(Head(lines)))>> ELSE << >>)
         \o HeadingsIn(Tail(lines))

\* The question headings of the two sections of the document, in order.
PeerHeadingsOfDoc == HeadingsIn(BeforeDivider(SplitLines(doc.text)))
SelfHeadingsOfDoc == HeadingsIn(AfterDivider(SplitLines(doc.text)))

\* The question IDs of the records of revs that satisfy Keep, each once, in
\* the order of their first occurrence.
RECURSIVE FirstOccurrences(_, _, _)
FirstOccurrences(revs, Keep(_), seen) ==
    IF revs = << >> THEN << >>
    ELSE LET q == Head(revs).Question IN
         IF Keep(Head(revs)) /\ q \notin seen
         THEN <<q>> \o FirstOccurrences(Tail(revs), Keep, seen \cup {q})
         ELSE FirstOccurrences(Tail(revs), Keep, seen)

RECURSIVE Restrict(_, _)
Restrict(order, S) ==
    IF order = << >> THEN << >>
    ELSE (IF Head(order) \in S THEN <<Head(order)>> ELSE << >>) \o Restrict(Tail(order), S)

IsSelfRecord(r) == ToLower(r.ReviewType) = StrSelf
IsKeptPeerRecord(r) == ~IsSelfRecord(r) /\ ~r.Response.nil /\ HasContent(r.Response)
AnyRecord(r) == TRUE

PeerTexts(order) == [i \in 1..Len(order) |-> PeerHeading(order[i], lk)]
SelfTexts(order) == [i \in 1..Len(order) |-> SelfHeading(order[i], lk)]

NoRepeats(order) == Cardinality(Range(order)) = Len(order)

\* C28: at every point of the classification loop, and so after it, every
\* record of the peer map has a response; the order lists hold exactly the keys
\* of their maps, each once, and every key has at least one record; the
\* rendering of the peer section therefore reads no response that is absent.
C28_ClassifierInvariant ==
    /\ \A q \in DOMAIN cl.peerByQ :
          \A i \in 1..Len(cl.peerByQ[q]) :
              /\ ~cl.peerByQ[q][i].Response.nil
              /\ cl.peerByQ[q][i].Question = q
    /\ Range(cl.qOrderPeer) = DOMAIN cl.peerByQ
    /\ Range(cl.qOrderSelf) = DOMAIN cl.selfByQ
    /\ NoRepeats(cl.qOrderPeer)
    /\ NoRepeats(cl.qOrderSelf)
    /\ \A q \in DOMAIN cl.peerByQ : Len(cl.peerByQ[q]) >= 1
    /\ \A q \in DOMAIN cl.selfByQ : Len(cl.selfByQ[q]) >= 1

C28_Witness ==
    /\ doc.done
    /\ Len(rs) = 4
    /\ rs[1] = Review(TxtPeer, Q2, RvB, NoResponse)
    /\ cl.qOrderPeer = <<Q1, Q2>>
    /\ Len(cl.peerByQ[Q1]) = 2
    /\ cl.qOrderSelf = << >>

-----------------------------------------------------------------------------
(* Properties of buildMarkdown on records of every shape, checked under    *)
(* SpecRec.                                                                *)

PeerLines == BeforeDivider(SplitLines(doc.text))
SelfLines == AfterDivider(SplitLines(doc.text))

IsQuoteLine(l) == HasPrefix(l, StrQuotePrefix)

\* An attribution line: not blank, no quote line, no title, label or heading.
IsAttributionLine(l) == l # << >> /\ l[1] # 35 /\ ~IsQuoteLine(l)

CountLines(lines, P(_)) == Cardinality({i \in 1..Len(lines) : P(lines[i])})

\* Quote blocks: the maximal runs of quote lines.
QuoteBlocks(lines) ==
    Cardinality({i \in 1..Len(lines) :
                    IsQuoteLine(lines[i]) /\ (i = 1 \/ ~IsQuoteLine(lines[i - 1]))})

CountRecords(P(_)) == Cardinality({i \in 1..Len(rs) : P(rs[i])})

\* The content filter as specified: the response is there and holds a comment
\* that is not blank, a choice, a numeric rating or a rating label.
PassesFilter(r) ==
    /\ ~r.Response.nil
    /\ \/ ~r.Response.Comment.nil /\ TrimSpace(r.Response.Comment.v) # << >>
       \/ r.Response.Choices # << >>
       \/ ~r.Response.Rating.nil
       \/ ~r.Response.RatingString.nil

IsKeptPeer(r) == ~IsSelfRecord(r) /\ PassesFilter(r)

\* A record without usable text: no response, or neither a comment with text
\* left after sanitizing nor a choice.
NoUsableText(r) ==
    \/ r.Response.nil
    \/ /\ r.Response.Choices = << >>
       /\ \/ r.Response.Comment.nil
          \/ sanitizeText(TrimSpace(r.Response.Comment.v)) = << >>
IsSelfWithoutText(r) == IsSelfRecord(r) /\ NoUsableText(r)

IsPlaceholderLine(l) == l = StrQuotePrefix \o StrNoComment

\* C11: every record of type "self" (in any case) makes exactly one quote block
\* of the Self Review section, the placeholder "(no comment)" when it has no
\* usable text or no response; every other record makes exactly one entry of
\* the Peer Feedback section when it passes the content filter and none
\* otherwise; no record shows in both sections.
C11_EveryRecordInItsSection ==
    doc.done =>
        /\ QuoteBlocks(SelfLines) = CountRecords(IsSelfRecord)
        /\ CountLines(SelfLines, IsAttributionLine) = 0
        /\ CountLines(PeerLines, IsAttributionLine) = CountRecords(IsKeptPeer)
        /\ QuoteBlocks(PeerLines) = CountRecords(IsKeptPeer)
        /\ ~doc.censor =>
              CountLines(SelfLines, IsPlaceholderLine) = CountRecords(IsSelfWithoutText)

C11_Witness ==
    /\ doc.done /\ ~doc.censor
    /\ Len(rs) = 2
    /\ IsSelfRecord(rs[1]) /\ rs[1].Response.nil
    /\ ~IsSelfRecord(rs[2]) /\ ~rs[2].Response.nil /\ ~PassesFilter(rs[2])
    /\ QuoteBlocks(SelfLines) = 1 /\ CountLines(SelfLines, IsPlaceholderLine) = 1
    /\ QuoteBlocks(PeerLines) = 0

\* The peer records the classifier holds, as (question, position) pairs.
PeerSlots(c) == UNION {{<<q, i>> : i \in 1..Len(c.peerByQ[q])} : q \in DOMAIN c.peerByQ}

RecBlankOnly == Review(TxtPeer, Q1, RvA, Response(Ptr(TxtBlank), << >>, NilPtr, NilPtr))
RecChoicesOnly == Review(TxtPeer, Q1, RvB, Response(NilPtr, <<TxtAgree>>, NilPtr, NilPtr))

\* C12: the classification loop keeps a peer record if and only if its response
\* is there and holds a comment that is not blank after trimming, a choice, a
\* numeric rating or a rating label: a kept record is appended to the peer
\* records of its question, a dropped one changes nothing.
C12_ContentFilter ==
    [][ (ri' = ri + 1 /\ ~IsSelfRecord(rs[ri + 1])) =>
            LET r == rs[ri + 1] IN
            IF PassesFilter(r)
            THEN /\ r.Question \in DOMAIN cl'.peerByQ
                 /\ cl'.peerByQ[r.Question][Len(cl'.peerByQ[r.Question])] = r
                 /\ Cardinality(PeerSlots(cl')) = Cardinality(PeerSlots(cl)) + 1
            ELSE cl' = cl
      ]_vars

C12_Witness ==
    /\ rs = <<RecBlankOnly, RecChoicesOnly>>
    /\ ri = 2
    /\ cl.peerByQ[Q1] = <<RecChoicesOnly>>
    /\ doc.done /\ CountLines(PeerLines, IsAttributionLine) = 1

\* The document of the same call with censor the other way.
OtherDoc == Render(MdUser, MdCycle, cl, lk, ~doc.censor)

\* Every code point of t that is no whitespace replaced by the glyph.
Glyphs(t) == [i \in 1..Len(t) |-> IF IsSpace(t[i]) THEN t[i] ELSE Glyph]

\* Where " (score: " starts in an attribution line, 0 if nowhere.
ScoreAt(l) ==
    LET hits == {k \in 1..Len(l) : HasPrefix(SubSeq(l, k, Len(l)), StrScoreOpen)}
    IN IF hits = {} THEN 0 ELSE CHOOSE k \in hits : \A j \in hits : k <= j

\* What a line of the uncensored document is in the censored one: the title,
\* the labels, the divider and the headings as they are; a quote line with its
\* text in glyphs; an attribution line with its name and its score in glyphs.
CensoredLine(l) ==
    IF l = << >> \/ l[1] = 35 \/ l = DividerLine THEN l
    ELSE IF IsQuoteLine(l)
    THEN StrQuotePrefix \o Glyphs(SubSeq(l, Len(StrQuotePrefix) + 1, Len(l)))
    ELSE IF ScoreAt(l) = 0
    THEN Glyphs(SubSeq(l, 1, Len(l) - 1)) \o <<58>>
    ELSE Glyphs(SubSeq(l, 1, ScoreAt(l) - 1)) \o StrScoreOpen
         \o Glyphs(SubSeq(l, ScoreAt(l) + Len(StrScoreOpen), Len(l) - 2)) \o <<41, 58>>

\* C17: for the same records and lookups the censored and the uncensored
\* document have the same title line, section labels, divider and question
\* headings, as many lines and the same whitespace at every position; they
\* differ only in that every code point that is no whitespace of the reviewer
\* names, the scores and the quote texts is the glyph.
C17_CensorKeepsStructure ==
    doc.done =>
        LET other == Render(MdUser, MdCycle, cl, lk, ~doc.censor)
            p == IF doc.censor THEN other ELSE doc.text
            c == IF doc.censor THEN doc.text ELSE other
            plain == SplitLines(p)
            censored == SplitLines(c)
        IN /\ Len(censored) = Len(plain)
           /\ censored = [i \in 1..Len(plain) |-> CensoredLine(plain[i])]
           /\ Len(c) = Len(p)
           /\ c = [i \in 1..Len(p) |-> IF IsSpace(p[i]) \/ c[i] # Glyph THEN p[i] ELSE Glyph]

C17_Witness ==
    /\ doc.done /\ doc.censor
    /\ lk = LookTagged
    /\ Len(rs) = 2
    /\ rs[1] = Review(TxtPeer, Q1, RvA, Response(Ptr(TxtLines), << >>, Ptr(TxtGood), Ptr(35)))
    /\ IsSelfRecord(rs[2]) /\ ~NoUsableText(rs[2])
    /\ \E i \in 1..Len(PeerLines) : PeerLines[i] = Glyphs(NameTwoWords) \o StrScoreOpen \o Glyphs(TxtGood) \o <<41, 58>>
    /\ doc.text # OtherDoc

IndexIn(order, x) == CHOOSE i \in 1..Len(order) : order[i] = x

\* C18: for a question that has peer records kept and self records, and whose
\* lookup returns the same body in both loops, the heading of the Peer Feedback
\* section is the heading of the Self Review section: the sanitized question
\* text on one line.
C18_SameHeadingInBothSections ==
    doc.done =>
        LET peerOrder == FirstOccurrences(rs, IsKeptPeerRecord, {})
            selfOrder == FirstOccurrences(rs, IsSelfRecord, {})
            peerHeads == PeerHeadingsOfDoc
            selfHeads == SelfHeadingsOfDoc
        IN \A q \in Range(peerOrder) \cap Range(selfOrder) :
              lk.peerQ[q] = lk.selfQ[q] =>
                  peerHeads[IndexIn(peerOrder, q)] = selfHeads[IndexIn(selfOrder, q)]

TitleLine == <<35, 32>> \o MdUser \o <<32, 40>> \o MdCycle \o <<41>>    \* "# Al (B)"
PeerLabelLine == SubSeq(StrPeerLabel, 1, Len(StrPeerLabel) - 2)
SelfLabelLine == SubSeq(StrSelfLabel, 1, Len(StrSelfLabel) - 2)

IsPeerLabel(l) == l = PeerLabelLine
IsSelfLabel(l) == l = SelfLabelLine
IsDivider(l) == l = DividerLine

\* A line of an entry or a heading of the peer section, and of the self section.
IsPeerBodyLine(l) == l = << >> \/ IsHeadingLine(l) \/ IsQuoteLine(l) \/ IsAttributionLine(l)
IsSelfBodyLine(l) == l = << >> \/ IsHeadingLine(l) \/ IsQuoteLine(l)

RECURSIVE KeptPeersOf(_, _)
KeptPeersOf(order, recs) ==
    IF order = << >> THEN << >>
    ELSE LET OfHead(r) == IsKeptPeer(r) /\ r.Question = Head(order)
         IN SelectSeq(recs, OfHead) \o KeptPeersOf(Tail(order), recs)

\* The peer records kept, in the order their entries are written: by question
\* in order of first occurrence, then in fetch order.
KeptPeersInOrder == KeptPeersOf(FirstOccurrences(rs, IsKeptPeerRecord, {}), rs)

NoScore == [shown |-> FALSE]
Score(t) == [shown |-> TRUE, text |-> t]

\* The score part of an attribution line.
ScoreShown(l) ==
    IF ScoreAt(l) = 0 THEN NoScore
    ELSE Score(SubSeq(l, ScoreAt(l) + Len(StrScoreOpen), Len(l) - 2))

AttributionLines == SelectSeq(PeerLines, IsAttributionLine)

\* The numeric ratings of the model's records with two decimals: 3.5 and 0.
TwoDecimals(t) == IF t = 35 THEN <<51, 46, 53, 48>> ELSE <<48, 46, 48, 48>>

\* C20 as claimed: the score of an attribution line is the rating label as it
\* is whenever a rating label is there, the numeric rating with two decimals
\* only when no label is there, and missing when neither is there.
C20_ScoreLabelVerbatim ==
    (doc.done /\ ~doc.censor) =>
        LET recs == KeptPeersInOrder
            lines == AttributionLines
        IN /\ Len(lines) = Len(recs)
           /\ \A i \in 1..Len(recs) :
                 ScoreShown(lines[i]) =
                    (IF ~recs[i].Response.RatingString.nil
                     THEN Score(recs[i].Response.RatingString.v)
                     ELSE IF ~recs[i].Response.Rating.nil
                     THEN Score(TwoDecimals(recs[i].Response.Rating.v))
                     ELSE NoScore)

\* C20 as amended: the score of an attribution line is the rating label as it
\* is when a label is there and is not empty; else the numeric rating with two
\* decimals when one is there; else there is no score part.
C20_ScoreNonEmptyLabelFirst ==
    (doc.done /\ ~doc.censor) =>
        LET recs == KeptPeersInOrder
            lines == AttributionLines
        IN /\ Len(lines) = Len(recs)
           /\ \A i \in 1..Len(recs) :
                 ScoreShown(lines[i]) =
                    (IF ~recs[i].Response.RatingString.nil
                        /\ recs[i].Response.RatingString.v # << >>
                     THEN Score(recs[i].Response.RatingString.v)
                     ELSE IF ~recs[i].Response.Rating.nil
                     THEN Score(TwoDecimals(recs[i].Response.Rating.v))
                     ELSE NoScore)

C20_Witness ==
    /\ doc.done /\ ~doc.censor /\ lk = RunLook
    /\ rs = << Review(TxtPeer, Q1, RvA, Response(Ptr(TxtOk), << >>, Ptr(<< >>), Ptr(35))),
               Review(TxtPeer, Q1, RvA, Response(Ptr(TxtLines), << >>, Ptr(TxtGood), Ptr(35))) >>
    /\ AttributionLines = << <<65, 108>> \o StrScoreOpen \o <<51, 46, 53, 48>> \o <<41, 58>>,
                             <<65, 108>> \o StrScoreOpen \o TxtGood \o <<41, 58>> >>

\* The name part of an attribution line.
NameShown(l) ==
    IF ScoreAt(l) = 0 THEN SubSeq(l, 1, Len(l) - 1) ELSE SubSeq(l, 1, ScoreAt(l) - 1)

\* The reviewer lookup of record r gives no name: the record has no reviewer
\* ID, the lookup fails, or the name it returns is blank.
NoNameFor(r) ==
    \/ r.Reviewer = << >>
    \/ lk.user[r.Reviewer].err
    \/ TrimSpace(lk.user[r.Reviewer].Name) = << >>

RecNoReviewer == Review(TxtPeer, Q2, << >>, Response(NilPtr, << >>, NilPtr, Ptr(0)))

\* C21: whatever the lookups return, the document is written with every record
\* that survived classification: a heading per question of each section, which
\* is "Question" when the question lookup fails; an attribution line per kept
\* peer record, whose name is "Unknown" when the record has no reviewer ID, the
\* reviewer lookup fails or the name is blank, and the name looked up
\* otherwise; a quote block per self record.
C21_LookupFailuresGivePlaceholders ==
    doc.done =>
        LET peerOrder == FirstOccurrences(rs, IsKeptPeerRecord, {})
            selfOrder == FirstOccurrences(rs, IsSelfRecord, {})
            peerHeads == PeerHeadingsOfDoc
            selfHeads == SelfHeadingsOfDoc
            recs == KeptPeersInOrder
            lines == AttributionLines
        IN /\ Len(peerHeads) = Len(peerOrder)
           /\ \A i \in 1..Len(peerOrder) :
                 lk.peerQ[peerOrder[i]].err => peerHeads[i] = StrQuestion
           /\ Len(selfHeads) = Len(selfOrder)
           /\ \A i \in 1..Len(selfOrder) :
                 lk.selfQ[selfOrder[i]].err => selfHeads[i] = StrQuestion
           /\ Len(lines) = Len(recs)
           /\ \A i \in 1..Len(recs) :
                 NameShown(lines[i]) =
                    mask(IF NoNameFor(recs[i]) THEN StrUnknown
                         ELSE lk.user[recs[i].Reviewer].Name, doc.censor)
           /\ QuoteBlocks(PeerLines) = Len(recs)
           /\ QuoteBlocks(SelfLines) = CountRecords(IsSelfRecord)

C21_Witness ==
    /\ doc.done /\ ~doc.censor /\ lk = MdLookFailing
    /\ rs = <<RecNoReviewer, RecChoicesOnly>>
    /\ PeerHeadingsOfDoc = <<StrQuestion, Q1>>
    /\ AttributionLines = << StrUnknown \o StrScoreOpen \o <<48, 46, 48, 48>> \o <<41, 58>>,
                             StrUnknown \o <<58>> >>

-----------------------------------------------------------------------------
(* Properties of sanitizeText and mask, checked under SpecText.            *)

\* C13: sanitizeText is idempotent: called on its own result it returns that
\* result.
C13_SanitizeIdempotent == Len(sn) = 2 => sn[2] = sn[1]

\* Tag spans removed as specified: a span runs from a '<' to the next '>';
\* every code point outside a span is kept.
RECURSIVE WithoutTagSpans(_)
WithoutTagSpans(s) ==
    IF s = << >> THEN << >>
    ELSE IF Head(s) = 60 /\ \E i \in 2..Len(s) : s[i] = 62
    THEN LET k == CHOOSE i \in 2..Len(s) : s[i] = 62 /\ \A j \in 2..(i - 1) : s[j] # 62
         IN WithoutTagSpans(SubSeq(s, k + 1, Len(s)))
    ELSE <<Head(s)>> \o WithoutTagSpans(Tail(s))

\* C14: after decoding the entities, sanitizeText rewrites <br>, <br/>, <br />
\* and </p> to a newline and <p> to nothing, then removes exactly the tag spans
\* that are left and keeps every code point outside them (the lines are then
\* put in normal form); "a<br>b</p>c<p>d" gives the lines a, b, cd.
C14_ExactlyTagSpansRemoved ==
    (Len(sn) >= 1 /\ tx # << >>) =>
        /\ sn[1] = TrimSpace(Join(Compact(SplitLines(
                       WithoutTagSpans(ApplyRepls(UnescapeString(tx), 1))), FALSE), NL))
        /\ tx = TxtFolding => SplitLines(sn[1]) = <<<<97>>, <<98>>, <<99, 100>>>>

IsBlankLine(l) == TrimSpace(l) = << >>

\* C15: every result of sanitizeText is in normal form: no line ends with a
\* whitespace character, no two consecutive lines are blank, the result neither
\* begins nor ends with a blank line; the empty text gives the empty text.
C15_SanitizeNormalForm ==
    Len(sn) >= 1 =>
        LET lines == SplitLines(sn[1]) IN
        /\ \A i \in 1..Len(lines) :
              lines[i] # << >> => ~IsSpace(lines[i][Len(lines[i])])
        /\ \A i \in 1..(Len(lines) - 1) : ~(IsBlankLine(lines[i]) /\ IsBlankLine(lines[i + 1]))
        /\ sn[1] # << >> => ~IsBlankLine(lines[1]) /\ ~IsBlankLine(lines[Len(lines)])
        /\ tx = << >> => sn[1] = << >>

\* C16: with censor off mask returns the text it is given; with censor on the
\* result has as many code points as the text, every whitespace code point
\* (newlines too) is where it was, and every other code point is the glyph.
C16_MaskKeepsLayout ==
    mk.done =>
        IF ~mk.censor THEN mk.text = tx
        ELSE /\ Len(mk.text) = Len(tx)
             /\ \A i \in 1..Len(tx) :
                   mk.text[i] = (IF tx[i] \in {9, 10, 11, 12, 13, 32, 133, 160}
                                 THEN tx[i] ELSE Glyph)

C16_Witness ==
    /\ mk.done /\ mk.censor
    /\ tx = TxtJane
    /\ {i \in 1..Len(tx) : mk.text[i] # Glyph} = {5, 10, 16, 20}
    /\ mk.text[20] = 10

-----------------------------------------------------------------------------
(* Properties of outputFileName, checked under SpecName.                   *)

IsLetterOrDigit(r) == (r >= 97 /\ r <= 122) \/ (r >= 48 /\ r <= 57)

\* The slug as specified: lower case; letters and digits kept; space, hyphen,
\* slash and backslash made an underscore; the rest dropped; no underscore at
\* either end.
SlugAsSpecified(s) ==
    LET low == [i \in 1..Len(s) |-> IF s[i] >= 65 /\ s[i] <= 90 THEN s[i] + 32 ELSE s[i]]
        Stays(r) == IsLetterOrDigit(r) \/ r \in {32, 45, 47, 92}
        kept == SelectSeq(low, Stays)
        mapped == [i \in 1..Len(kept) |-> IF IsLetterOrDigit(kept[i]) THEN kept[i] ELSE 95]
        inner == {i \in 1..Len(mapped) : mapped[i] # 95}
    IN IF inner = {} THEN << >>
       ELSE SubSeq(mapped, CHOOSE i \in inner : \A j \in inner : i <= j,
                           CHOOSE i \in inner : \A j \in inner : i >= j)

\* Where the whitespace-separated tokens of s start.
TokenStarts(s) == {i \in 1..Len(s) : ~IsSpace(s[i]) /\ (i = 1 \/ IsSpace(s[i - 1]))}

\* The token of s that starts at i.
TokenAt(s, i) ==
    LET ends == {j \in i..Len(s) : j = Len(s) \/ IsSpace(s[j + 1])}
    IN SubSeq(s, i, CHOOSE j \in ends : \A k \in ends : j <= k)

FirstToken(s) ==
    LET st == TokenStarts(s)
    IN IF st = {} THEN StrUser ELSE TokenAt(s, CHOOSE i \in st : \A j \in st : i <= j)

LastToken(s) ==
    LET st == TokenStarts(s)
    IN IF Cardinality(st) < 2 THEN << >> ELSE TokenAt(s, CHOOSE i \in st : \A j \in st : i >= j)

TxtAdaFile == <<97, 100, 97, 95, 108, 111, 118, 101, 108, 97, 99, 101, 95, 50, 48, 50, 52, 95, 104, 49, 46, 109, 100>>
    \* "ada_lovelace_2024_h1.md"

\* C22: the file name is slug(first) _ slug(last) _ slug(cycle) .md, where first
\* is the first whitespace-separated token of the subject name ("user" when it
\* has none) and last its last token when it has two or more (empty otherwise);
\* before the extension it holds only a-z, 0-9 and the underscore; "Ada
\* Lovelace" and "2024 H1" give ada_lovelace_2024_h1.md.
C22_FileNameFromSlugs ==
    fn.done =>
        /\ fn.file = SlugAsSpecified(FirstToken(fn.user)) \o <<95>>
                     \o SlugAsSpecified(LastToken(fn.user)) \o <<95>>
                     \o SlugAsSpecified(fn.cycle) \o StrMdExt
        /\ \A i \in 1..(Len(fn.file) - Len(StrMdExt)) :
              IsLetterOrDigit(fn.file[i]) \/ fn.file[i] = 95
        /\ (fn.user = TxtAda /\ fn.cycle = TxtH1) => fn.file = TxtAdaFile

C22_Witness ==
    /\ fn.done
    /\ fn.user = TxtAdaB /\ fn.cycle = TxtSlashes
    /\ fn.file = <<97, 100, 97, 95, 108, 111, 118, 101, 108, 97, 99, 101, 95, 113, 49, 95, 113, 50, 95, 95, 95, 120, 95, 121, 46, 109, 100>>
         \* "ada_lovelace_q1_q2___x_y.md"

-----------------------------------------------------------------------------
(* Properties of RunSetup, checked under SpecSetup.                        *)

\* Setup has written the file after Enter alone at both prompts, over a file
\* LoadConfig had loaded.
KeptByEnter ==
    /\ su.at = "done"
    /\ su.before.err = "nil"
    /\ su.keyTyped = << >>
    /\ su.remoteTyped = << >>

\* C30: after setup over a loadable config with Enter at both prompts,
\* LoadConfig returns the api_key, rclone_remote and template IDs it returned
\* before; and LoadConfig after SaveConfig returns the saved values.
C30_SetupKeepsConfig ==
    /\ KeptByEnter => LoadConfig(disk) = su.before
    /\ su.at = "done" => LoadConfig(disk) = [err |-> "nil", cfg |-> su.saved]

====
